---- MODULE Spec2Model ----
(***************************************************************************)
(* Model of the geocoding service: the request models (app/models),        *)
(* the three provider adapters (app/services/providers), the orchestrator  *)
(* GeocodingService (cache lookup, retry loop with exponential backoff,    *)
(* cache store) and the two entry points in front of it (the HTTP routes   *)
(* of app/main.py and the MCP tools of mcp_server.py).                     *)
(*                                                                         *)
(* Conventions.                                                            *)
(*  - Optional values are sequences of length 0 (None) or 1 (the value).   *)
(*  - Strings that the code takes apart (addresses, city names) are        *)
(*    sequences of one-character strings; " " is the only whitespace.      *)
(*  - Coordinates are integers in units of 10^-7 degree, so that one more  *)
(*    decimal than round(x, 6) keeps is representable.                     *)
(*  - Confidences are integers in hundredths (0.95 is 95).                 *)
(*  - Chinese string literals of the source are written as English         *)
(*    glosses; the gloss is given where the literal is modelled.           *)
(***************************************************************************)
EXTENDS Integers, Sequences, FiniteSets, TLC

(* ------------------------------------------------------------------ *)
(* Bounds of the model                                                   *)
(* ------------------------------------------------------------------ *)

\* GEOCODING_RETRY_TIMES is drawn from 0..MaxRetryTimes
MaxRetryTimes == 3

\* number of requests submitted in one behaviour
MaxSubmits == 3

\* the clock runs from 0 to MaxTime
MaxTime == 2

\* the configured CACHE_TTL, in clock ticks
CacheTtl == 2

\* the configured CACHE_MAX_SIZE
CacheMaxSize == 2

(* ------------------------------------------------------------------ *)
(* Program constants                                                     *)
(* ------------------------------------------------------------------ *)

LAT_LIMIT == 90

LNG_LIMIT == 180

RADIUS_MIN == 1

RADIUS_MAX == 50000

DEFAULT_RADIUS == 1000

ADDRESS_MIN_LENGTH == 1

ADDRESS_MAX_LENGTH == 500

BACKOFF_BASE == 2

KEY_DECIMALS == 6

\* units per degree: one decimal more than the cache key keeps
Deg == 10 * (10 ^ KEY_DECIMALS)

(* ------------------------------------------------------------------ *)
(* Optional values and strings                                           *)
(* ------------------------------------------------------------------ *)

None == <<>>

Some(x) == <<x>>

IsNone(o) == Len(o) = 0

Get(o) == o[1]

\* Python's `x or d` for an Optional string
OrElse(o, d) == IF IsNone(o) \/ Len(Get(o)) = 0 THEN d ELSE Get(o)

RECURSIVE LStrip(_)
LStrip(s) == IF Len(s) > 0 /\ Head(s) = " " THEN LStrip(Tail(s)) ELSE s

RECURSIVE RStrip(_)
RStrip(s) ==
    IF Len(s) > 0 /\ s[Len(s)] = " " THEN RStrip(SubSeq(s, 1, Len(s) - 1)) ELSE s

\* str.strip()
Strip(s) == RStrip(LStrip(s))

DigitChars == <<"0", "1", "2", "3", "4", "5", "6", "7", "8", "9">>

RECURSIVE NatStr(_)
NatStr(n) ==
    IF n < 10 THEN <<DigitChars[n + 1]>>
    ELSE NatStr(n \div 10) \o <<DigitChars[(n % 10) + 1]>>

\* str(n) of an int
IntStr(n) == IF n < 0 THEN <<"-">> \o NatStr(-n) ELSE NatStr(n)

RECURSIVE FracStr(_, _)
\* the `width` decimals of f, trailing zeros dropped, at least one kept
FracStr(f, width) ==
    IF width = 1 THEN <<DigitChars[f + 1]>>
    ELSE IF f % 10 = 0 THEN FracStr(f \div 10, width - 1)
    ELSE FracStr(f \div 10, width - 1) \o <<DigitChars[(f % 10) + 1]>>

\* round(x, 6) of a float x given in units of 10^-7 degree: the nearest
\* multiple of 10^-6, a tie going to the even one; the result is in units
\* of 10^-6 degree
Round6(x) ==
    LET a == IF x < 0 THEN -x ELSE x
        q == a \div 10
        d == a % 10
        m == IF d > 5 \/ (d = 5 /\ q % 2 = 1) THEN q + 1 ELSE q
    IN  IF x < 0 THEN -m ELSE m

\* round(x, 6) keeps the sign of a negative x that rounds to zero: -0.0
NegativeZero(x) == x < 0 /\ Round6(x) = 0

\* the float format switches to exponent notation below this many units of
\* 10^-6 (below 0.0001)
EXPONENT_BELOW == 100

\* str(v) of a float 0 < v < 0.0001 given in units of 10^-6: "1e-06",
\* "1.2e-05", "2e-05"
ExponentStr(a) ==
    IF a < 10 THEN <<DigitChars[a + 1], "e", "-", "0", "6">>
    ELSE <<DigitChars[(a \div 10) + 1]>>
         \o (IF a % 10 = 0 THEN <<>> ELSE <<".", DigitChars[(a % 10) + 1]>>)
         \o <<"e", "-", "0", "5">>

\* str(v) of a float v given in units of 10^-6: positional notation, or
\* exponent notation for a small magnitude
FloatStr(v) ==
    LET a == IF v < 0 THEN -v ELSE v
        unit == 10 ^ KEY_DECIMALS
    IN  (IF v < 0 THEN <<"-">> ELSE <<>>)
        \o (IF 0 < a /\ a < EXPONENT_BELOW THEN ExponentStr(a)
            ELSE NatStr(a \div unit) \o <<".">> \o FracStr(a % unit, KEY_DECIMALS))

\* str(round(x, 6)) of a float x given in units of 10^-7 degree
RoundedStr(x) ==
    IF NegativeZero(x) THEN <<"-">> \o FloatStr(0) ELSE FloatStr(Round6(x))

(* ------------------------------------------------------------------ *)
(* Request and response models (app/models/geocoding.py)                 *)
(* ------------------------------------------------------------------ *)

\* GeocodeRequest: the length constraints of the field, then validate_address
GeocodeRequestAccepts(address) ==
    /\ Len(address) >= ADDRESS_MIN_LENGTH
    /\ Len(address) <= ADDRESS_MAX_LENGTH
    /\ ~(Len(address) = 0 \/ Len(Strip(address)) = 0)

\* the validator returning v instead of v.strip()
GeocodeRequestUntrimmed(address, city) == [address |-> address, city |-> city]

\* the request object built from an accepted input: validate_address returns
\* v.strip()
GeocodeRequest(address, city) == [address |-> Strip(address), city |-> city]

validate_latitude(v) == (-LAT_LIMIT * Deg <= v) /\ (v <= LAT_LIMIT * Deg)

validate_longitude(v) == (-LNG_LIMIT * Deg <= v) /\ (v <= LNG_LIMIT * Deg)

\* radius: Optional[int] with ge=1, le=50000; None passes
RadiusAccepts(radius) ==
    IsNone(radius) \/ (RADIUS_MIN <= Get(radius) /\ Get(radius) <= RADIUS_MAX)

ReverseGeocodeRequestAccepts(latitude, longitude, radius) ==
    validate_latitude(latitude) /\ validate_longitude(longitude) /\ RadiusAccepts(radius)

\* GeocodeResponse(...): the validators of latitude and longitude run on
\* construction; a failure raises pydantic's ValidationError
GeocodeResponseAccepts(lat, lng) == validate_latitude(lat) /\ validate_longitude(lng)

GeocodeResponse(lat, lng, formatted, confidence) ==
    [type |-> "GeocodeResponse", latitude |-> lat, longitude |-> lng,
     formatted_address |-> formatted, confidence |-> confidence]

\* ReverseGeocodeResponse has no validators
ReverseGeocodeResponse(formatted, confidence) ==
    [type |-> "ReverseGeocodeResponse", address |-> formatted,
     formatted_address |-> formatted, confidence |-> confidence]

(* ------------------------------------------------------------------ *)
(* Errors: the class of the raised object, what raised it, and the        *)
(* attempt of the request that raised it (the object's identity)          *)
(* ------------------------------------------------------------------ *)

Error(cls, msg, attempt) == [cls |-> cls, msg |-> msg, attempt |-> attempt]

Ok(v) == [ok |-> TRUE, value |-> v]

Fail(cls, msg) == [ok |-> FALSE, cls |-> cls, msg |-> msg]

(* ------------------------------------------------------------------ *)
(* The cache: cachetools.TTLCache as GeocodingService uses it. A sequence *)
(* of entries, least recently stored first.                               *)
(* ------------------------------------------------------------------ *)

\* the entries that have not expired at time t
Live(c, t) == SelectSeq(c, LAMBDA e : t < e.expires)

\* len(self.cache)
CacheLen(c, t) == Len(Live(c, t))

\* the truth value of `self.cache`: None is false, and a TTLCache is a
\* mapping, true only when it holds an entry
CacheTruthy(enabled, c, t) == enabled /\ CacheLen(c, t) > 0

\* self.cache.get(key)
CacheGet(c, t, key) ==
    LET hits == SelectSeq(Live(c, t), LAMBDA e : e.key = key)
    IN  IF Len(hits) = 0 THEN None ELSE Some(hits[1].value)

\* self.cache[key] = value: expired entries go, an entry of the same key is
\* replaced, and the least recently stored entries are evicted to make room
CacheSet(c, t, key, value) ==
    LET kept == SelectSeq(Live(c, t), LAMBDA e : e.key # key)
        room == IF Len(kept) >= CacheMaxSize
                THEN SubSeq(kept, Len(kept) - CacheMaxSize + 2, Len(kept))
                ELSE kept
    IN  room \o <<[key |-> key, value |-> value, expires |-> t + CacheTtl]>>

\* the parameter names of both operations in sorted() order
SortedNames == <<"address", "city", "lat", "lng", "radius">>

\* the place of a name in that order
Rank(name) == CHOOSE i \in 1..Len(SortedNames) : SortedNames[i] = name

\* the names and the operations, character by character
NameChars ==
    [address |-> <<"a", "d", "d", "r", "e", "s", "s">>,
     city |-> <<"c", "i", "t", "y">>,
     lat |-> <<"l", "a", "t">>,
     lng |-> <<"l", "n", "g">>,
     radius |-> <<"r", "a", "d", "i", "u", "s">>]

OperationChars ==
    [geocode |-> <<"g", "e", "o", "c", "o", "d", "e">>,
     reverse_geocode |-> <<"r", "e", "v", "e", "r", "s", "e", "_",
                           "g", "e", "o", "c", "o", "d", "e">>]

\* sorted(kwargs.items()): the (name, value) pairs by name
RECURSIVE SortedItems(_)
SortedItems(items) ==
    IF Len(items) = 0 THEN <<>>
    ELSE LET least == CHOOSE i \in 1..Len(items) :
                          \A j \in 1..Len(items) : Rank(items[i][1]) <= Rank(items[j][1])
         IN  <<items[least]>>
             \o SortedItems(SubSeq(items, 1, least - 1)
                            \o SubSeq(items, least + 1, Len(items)))

RECURSIVE JoinParts(_, _)
JoinParts(items, acc) ==
    IF Len(items) = 0 THEN acc
    ELSE JoinParts(Tail(items),
                   acc \o <<":">> \o NameChars[Head(items)[1]] \o <<":">> \o Head(items)[2])

\* GeocodingService._get_cache_key: the operation, then "k:v" for the
\* keyword arguments sorted by name, joined with ":"
get_cache_key(operation, items) ==
    JoinParts(SortedItems(items), OperationChars[operation])

\* the keyword arguments geocode() passes
GeocodeItems(address, city) ==
    <<<<"address", address>>, <<"city", OrElse(city, <<>>)>>>>

\* the key geocode() builds
GeocodeKey(address, city) == get_cache_key("geocode", GeocodeItems(address, city))

\* the keyword arguments reverse_geocode() passes
ReverseItems(latitude, longitude, radius) ==
    <<<<"lat", RoundedStr(latitude)>>, <<"lng", RoundedStr(longitude)>>,
      <<"radius", IntStr(radius)>>>>

\* the key reverse_geocode() builds
ReverseKey(latitude, longitude, radius) ==
    get_cache_key("reverse_geocode", ReverseItems(latitude, longitude, radius))

(* ------------------------------------------------------------------ *)
(* Provider adapters (app/services/providers). An adapter call issues one *)
(* outbound request; `reply` is what comes back. The result is Ok(response)*)
(* or Fail(class, cause) for the exception the adapter lets out.          *)
(* ------------------------------------------------------------------ *)

AMAP_MAX_RADIUS == 3000

AMAP_REVERSE_CONFIDENCE == 90

BAIDU_REVERSE_CONFIDENCE == 85

GOOGLE_REVERSE_CONFIDENCE == 90

DEFAULT_CONFIDENCE == 70

\* a numeric token of a provider string, and one float() cannot parse
Num(v) == [numeric |-> TRUE, v |-> v]

NotANumber == [numeric |-> FALSE, v |-> 0]

\* AmapProvider._calculate_confidence. The levels, in the order of the
\* source table: country (guo jia), province (sheng), city (shi), district
\* (qu xian), development zone (kai fa qu), township (xiang zhen), village
\* (cun zhuang), business area (re dian shang quan), poi (xing qu dian),
\* street number (men pai hao), unit number (dan yuan hao)
AmapLevelConfidence ==
    [country |-> 30, province |-> 40, city |-> 50, district |-> 60,
     development_zone |-> 70, township |-> 70, village |-> 80,
     business_area |-> 80, poi |-> 90, street_number |-> 95, unit_number |-> 98]

\* no default: a level that is not in the table scores nothing
AmapConfidenceNoDefault(level) ==
    IF level \in DOMAIN AmapLevelConfidence THEN AmapLevelConfidence[level] ELSE 0

amap_calculate_confidence(level) ==
    IF level \in DOMAIN AmapLevelConfidence THEN AmapLevelConfidence[level]
    ELSE DEFAULT_CONFIDENCE

\* the two middle entries exchanged
GoogleTypeConfidenceSwapped ==
    [ROOFTOP |-> 95, RANGE_INTERPOLATED |-> 75, GEOMETRIC_CENTER |-> 85,
     APPROXIMATE |-> 60]

GoogleTypeConfidence ==
    [ROOFTOP |-> 95, RANGE_INTERPOLATED |-> 85, GEOMETRIC_CENTER |-> 75,
     APPROXIMATE |-> 60]

\* GoogleProvider._calculate_confidence
google_calculate_confidence(location_type) ==
    IF location_type \in DOMAIN GoogleTypeConfidence
    THEN GoogleTypeConfidence[location_type]
    ELSE DEFAULT_CONFIDENCE

\* GeocodeResponse(...) at the end of an adapter's geocode
BuildGeocodeResponse(lat, lng, formatted, confidence) ==
    IF GeocodeResponseAccepts(lat, lng)
    THEN Ok(GeocodeResponse(lat, lng, formatted, confidence))
    ELSE Fail("ValidationError", "response_out_of_range")

\* the two numbers of the location string taken latitude first
AmapGeocodeLatFirst(address, city, reply) ==
    IF reply.transport # "ok" THEN Fail("HTTPError", "transport")
    ELSE IF reply.status # "1" THEN Fail("Exception", "api_error")
    ELSE IF Len(reply.geocodes) = 0 THEN Fail("Exception", "no_result")
    ELSE LET geocode == reply.geocodes[1]
             location == geocode.location
         IN  IF Len(location) = 0 THEN Fail("Exception", "no_coordinates")
             ELSE IF Len(location) # 2 \/ \E i \in 1..Len(location) : ~location[i].numeric
                  THEN Fail("ValueError", "location_unparsable")
             ELSE BuildGeocodeResponse(
                      location[1].v, location[2].v,
                      IF IsNone(geocode.formatted_address) THEN address
                      ELSE Get(geocode.formatted_address),
                      amap_calculate_confidence(geocode.level))

\* AmapProvider.geocode. reply.geocodes[1].location is the provider string
\* split at ","
AmapGeocode(address, city, reply) ==
    IF reply.transport # "ok" THEN Fail("HTTPError", "transport")
    ELSE IF reply.status # "1" THEN Fail("Exception", "api_error")
    ELSE IF Len(reply.geocodes) = 0 THEN Fail("Exception", "no_result")
    ELSE LET geocode == reply.geocodes[1]
             location == geocode.location
         IN  IF Len(location) = 0 THEN Fail("Exception", "no_coordinates")
             ELSE IF Len(location) # 2 \/ \E i \in 1..Len(location) : ~location[i].numeric
                  THEN Fail("ValueError", "location_unparsable")
             ELSE BuildGeocodeResponse(
                      location[2].v, location[1].v,
                      IF IsNone(geocode.formatted_address) THEN address
                      ELSE Get(geocode.formatted_address),
                      amap_calculate_confidence(geocode.level))

\* result.get("confidence", 0) / 100.0: Baidu sends a percentage; the
\* quotient, in hundredths, is the percentage itself
BaiduConfidence(percent) == (percent * 100) \div 100

\* BaiduProvider.geocode
BaiduGeocode(address, city, reply) ==
    IF reply.transport # "ok" THEN Fail("HTTPError", "transport")
    ELSE IF reply.status # 0 THEN Fail("Exception", "api_error")
    ELSE IF IsNone(reply.location) THEN Fail("Exception", "no_coordinates")
    ELSE LET location == Get(reply.location)
         IN  IF IsNone(location.lat) \/ IsNone(location.lng)
             THEN Fail("Exception", "coordinates_incomplete")
             ELSE BuildGeocodeResponse(Get(location.lat), Get(location.lng), address,
                                       BaiduConfidence(reply.confidence))

\* the provider's status left unread
GoogleGeocodeAnyStatus(address, city, reply) ==
    IF reply.transport # "ok" THEN Fail("HTTPError", "transport")
    ELSE IF Len(reply.results) = 0 THEN Fail("Exception", "no_result")
    ELSE LET result == reply.results[1]
         IN  IF IsNone(result.location) THEN Fail("Exception", "no_coordinates")
             ELSE LET location == Get(result.location)
                  IN  IF IsNone(location.lat) \/ IsNone(location.lng)
                      THEN Fail("Exception", "coordinates_incomplete")
                      ELSE BuildGeocodeResponse(
                               Get(location.lat), Get(location.lng),
                               IF IsNone(result.formatted_address) THEN address
                               ELSE Get(result.formatted_address),
                               google_calculate_confidence(result.location_type))

\* GoogleProvider.geocode
GoogleGeocode(address, city, reply) ==
    IF reply.transport # "ok" THEN Fail("HTTPError", "transport")
    ELSE IF reply.status # "OK" THEN Fail("Exception", "api_error")
    ELSE IF Len(reply.results) = 0 THEN Fail("Exception", "no_result")
    ELSE LET result == reply.results[1]
         IN  IF IsNone(result.location) THEN Fail("Exception", "no_coordinates")
             ELSE LET location == Get(result.location)
                  IN  IF IsNone(location.lat) \/ IsNone(location.lng)
                      THEN Fail("Exception", "coordinates_incomplete")
                      ELSE BuildGeocodeResponse(
                               Get(location.lat), Get(location.lng),
                               IF IsNone(result.formatted_address) THEN address
                               ELSE Get(result.formatted_address),
                               google_calculate_confidence(result.location_type))

\* AmapProvider.reverse_geocode
AmapReverseGeocode(latitude, longitude, radius, reply) ==
    IF reply.transport # "ok" THEN Fail("HTTPError", "transport")
    ELSE IF reply.status # "1" THEN Fail("Exception", "api_error")
    ELSE IF IsNone(reply.regeocode) THEN Fail("Exception", "no_result")
    ELSE Ok(ReverseGeocodeResponse(Get(reply.regeocode), AMAP_REVERSE_CONFIDENCE))

\* BaiduProvider.reverse_geocode
BaiduReverseGeocode(latitude, longitude, radius, reply) ==
    IF reply.transport # "ok" THEN Fail("HTTPError", "transport")
    ELSE IF reply.status # 0 THEN Fail("Exception", "api_error")
    ELSE Ok(ReverseGeocodeResponse(reply.formatted_address, BAIDU_REVERSE_CONFIDENCE))

\* GoogleProvider.reverse_geocode
GoogleReverseGeocode(latitude, longitude, radius, reply) ==
    IF reply.transport # "ok" THEN Fail("HTTPError", "transport")
    ELSE IF reply.status # "OK" THEN Fail("Exception", "api_error")
    ELSE IF Len(reply.results) = 0 THEN Fail("Exception", "no_result")
    ELSE Ok(ReverseGeocodeResponse(reply.results[1], GOOGLE_REVERSE_CONFIDENCE))

\* the query an adapter's geocode puts in the URL: `if city:` adds the city
\* (Google appends it to the address after ", ")
AmapGeocodeParams(address, city) ==
    [endpoint |-> "/geocode/geo", address |-> address,
     city |-> IF Len(OrElse(city, <<>>)) > 0 THEN city ELSE None]

BaiduGeocodeParams(address, city) ==
    [endpoint |-> "/geocoding/v3/", address |-> address,
     city |-> IF Len(OrElse(city, <<>>)) > 0 THEN city ELSE None]

GoogleGeocodeParams(address, city) ==
    [endpoint |-> "/geocode/json",
     address |-> IF Len(OrElse(city, <<>>)) > 0 THEN address \o <<",", " ">> \o Get(city)
                 ELSE address,
     city |-> None]

\* the query an adapter's reverse_geocode puts in the URL: Amap sends
\* "lng,lat" and min(radius, 3000); Baidu and Google send "lat,lng" and no
\* radius parameter
AmapReverseParams(latitude, longitude, radius) ==
    [endpoint |-> "/geocode/regeo", location |-> <<longitude, latitude>>,
     radius |-> Some(IF radius < AMAP_MAX_RADIUS THEN radius ELSE AMAP_MAX_RADIUS)]

BaiduReverseParams(latitude, longitude, radius) ==
    [endpoint |-> "/reverse_geocoding/v3/", location |-> <<latitude, longitude>>,
     radius |-> None]

GoogleReverseParams(latitude, longitude, radius) ==
    [endpoint |-> "/geocode/json", location |-> <<latitude, longitude>>,
     radius |-> None]

\* self.provider = None
NoProvider == "none"

\* what goes out when the bound provider is called with c: one
\* `self.client.get(url)`, or nothing when no provider is bound
Outbound(prov, c) ==
    IF prov = NoProvider THEN <<>>
    ELSE IF c.op = "geocode"
    THEN CASE prov = "amap" -> <<AmapGeocodeParams(c.address, c.city)>>
           [] prov = "baidu" -> <<BaiduGeocodeParams(c.address, c.city)>>
           [] prov = "google" -> <<GoogleGeocodeParams(c.address, c.city)>>
    ELSE CASE prov = "amap" ->
                <<AmapReverseParams(c.latitude, c.longitude, c.radius)>>
           [] prov = "baidu" ->
                <<BaiduReverseParams(c.latitude, c.longitude, c.radius)>>
           [] prov = "google" ->
                <<GoogleReverseParams(c.latitude, c.longitude, c.radius)>>

\* self.provider.geocode / self.provider.reverse_geocode of the bound
\* provider; on None the attribute lookup raises and nothing is sent
ProviderCall(prov, c, reply) ==
    IF prov = NoProvider THEN Fail("AttributeError", "provider_unset")
    ELSE IF c.op = "geocode"
    THEN CASE prov = "amap" -> AmapGeocode(c.address, c.city, reply)
           [] prov = "baidu" -> BaiduGeocode(c.address, c.city, reply)
           [] prov = "google" -> GoogleGeocode(c.address, c.city, reply)
    ELSE CASE prov = "amap" ->
                AmapReverseGeocode(c.latitude, c.longitude, c.radius, reply)
           [] prov = "baidu" ->
                BaiduReverseGeocode(c.latitude, c.longitude, c.radius, reply)
           [] prov = "google" ->
                GoogleReverseGeocode(c.latitude, c.longitude, c.radius, reply)

(* ------------------------------------------------------------------ *)
(* What the providers may answer                                         *)
(* ------------------------------------------------------------------ *)

\* 116.4074, 39.9042 (the coordinates of the test suite's stub reply)
LngSanlitun == 1164074000

LatSanlitun == 399042000

\* "bei jing shi chao yang qu san li tun", abbreviated
Sanlitun == <<"S">>

AmapEntry(location, level, formatted) ==
    [location |-> location, level |-> level, formatted_address |-> formatted]

AmapReply(transport, status, geocodes) ==
    [transport |-> transport, status |-> status, geocodes |-> geocodes]

AmapLocations ==
    {<<Num(LngSanlitun), Num(LatSanlitun)>>,
     <<Num(LNG_LIMIT * Deg), Num(-LAT_LIMIT * Deg)>>,
     <<Num(LngSanlitun), Num(LAT_LIMIT * Deg + 1)>>,
     <<Num(-LNG_LIMIT * Deg - 1), Num(LatSanlitun)>>,
     <<Num(LatSanlitun), Num(LngSanlitun)>>,
     <<Num(LngSanlitun)>>,
     <<NotANumber, Num(LatSanlitun)>>,
     <<>>}

AmapGeocodeReplies ==
    {AmapReply("error", "1", <<>>), AmapReply("ok", "0", <<>>), AmapReply("ok", "1", <<>>),
     AmapReply("ok", "0",
               <<AmapEntry(<<Num(LngSanlitun), Num(LatSanlitun)>>, "poi", Some(Sanlitun))>>)}
    \cup {AmapReply("ok", "1", <<AmapEntry(loc, level, fmt)>>) :
            loc \in AmapLocations, level \in {"poi", ""}, fmt \in {None, Some(Sanlitun)}}

\* a confidence number above Baidu's percentage scale
BAIDU_PERCENT_OVER == 150

BaiduReply(transport, status, location, confidence) ==
    [transport |-> transport, status |-> status, location |-> location,
     confidence |-> confidence]

LatLng(lat, lng) == [lat |-> lat, lng |-> lng]

ProviderLocations ==
    {Some(LatLng(Some(LatSanlitun), Some(LngSanlitun))),
     Some(LatLng(Some(-LAT_LIMIT * Deg), Some(LNG_LIMIT * Deg))),
     Some(LatLng(Some(LAT_LIMIT * Deg + 1), Some(LngSanlitun))),
     Some(LatLng(Some(LatSanlitun), Some(-LNG_LIMIT * Deg - 1))),
     Some(LatLng(None, Some(LngSanlitun))),
     None}

BaiduGeocodeReplies ==
    {BaiduReply("error", 0, None, 0), BaiduReply("ok", 1, None, 0),
     BaiduReply("ok", 1, Some(LatLng(Some(LatSanlitun), Some(LngSanlitun))), 80),
     BaiduReply("ok", 0, Some(LatLng(Some(LatSanlitun), Some(LngSanlitun))),
                BAIDU_PERCENT_OVER)}
    \cup {BaiduReply("ok", 0, loc, conf) : loc \in ProviderLocations, conf \in {0, 80}}

GoogleResult(location, location_type, formatted) ==
    [location |-> location, location_type |-> location_type,
     formatted_address |-> formatted]

GoogleReply(transport, status, results) ==
    [transport |-> transport, status |-> status, results |-> results]

GoogleGeocodeReplies ==
    {GoogleReply("error", "OK", <<>>), GoogleReply("ok", "ZERO_RESULTS", <<>>),
     GoogleReply("ok", "OK", <<>>),
     GoogleReply("ok", "OVER_QUERY_LIMIT",
                 <<GoogleResult(Some(LatLng(Some(LatSanlitun), Some(LngSanlitun))),
                                "ROOFTOP", Some(Sanlitun))>>)}
    \cup {GoogleReply("ok", "OK", <<GoogleResult(loc, type, fmt)>>) :
            loc \in ProviderLocations, type \in {"ROOFTOP", ""},
            fmt \in {None, Some(Sanlitun)}}

AmapReverseReply(transport, status, regeocode) ==
    [transport |-> transport, status |-> status, regeocode |-> regeocode]

AmapReverseReplies ==
    {AmapReverseReply("error", "1", None), AmapReverseReply("ok", "0", None),
     AmapReverseReply("ok", "1", None), AmapReverseReply("ok", "1", Some(Sanlitun))}

BaiduReverseReply(transport, status, formatted) ==
    [transport |-> transport, status |-> status, formatted_address |-> formatted]

BaiduReverseReplies ==
    {BaiduReverseReply("error", 0, <<>>), BaiduReverseReply("ok", 1, <<>>),
     BaiduReverseReply("ok", 0, Sanlitun)}

GoogleReverseReplies ==
    {GoogleReply("error", "OK", <<>>), GoogleReply("ok", "ZERO_RESULTS", <<>>),
     GoogleReply("ok", "OK", <<>>), GoogleReply("ok", "OK", <<Sanlitun>>)}

\* every reply of the model for one provider and operation
Replies(prov, op) ==
    IF op = "geocode"
    THEN CASE prov = "amap" -> AmapGeocodeReplies
           [] prov = "baidu" -> BaiduGeocodeReplies
           [] prov = "google" -> GoogleGeocodeReplies
    ELSE CASE prov = "amap" -> AmapReverseReplies
           [] prov = "baidu" -> BaiduReverseReplies
           [] prov = "google" -> GoogleReverseReplies

\* three of them: a good answer, a transport failure, a provider-side error
FewReplies(prov, op) ==
    IF op = "geocode"
    THEN CASE prov = "amap" ->
                {AmapReply("error", "1", <<>>), AmapReply("ok", "0", <<>>),
                 AmapReply("ok", "1",
                           <<AmapEntry(<<Num(LngSanlitun), Num(LatSanlitun)>>, "poi",
                                       Some(Sanlitun))>>)}
           [] prov = "baidu" ->
                {BaiduReply("error", 0, None, 0), BaiduReply("ok", 1, None, 0),
                 BaiduReply("ok", 0, Some(LatLng(Some(LatSanlitun), Some(LngSanlitun))),
                            80)}
           [] prov = "google" ->
                {GoogleReply("error", "OK", <<>>), GoogleReply("ok", "ZERO_RESULTS", <<>>),
                 GoogleReply("ok", "OK",
                             <<GoogleResult(Some(LatLng(Some(LatSanlitun),
                                                        Some(LngSanlitun))),
                                            "ROOFTOP", Some(Sanlitun))>>)}
    ELSE CASE prov = "amap" ->
                {AmapReverseReply("error", "1", None), AmapReverseReply("ok", "0", None),
                 AmapReverseReply("ok", "1", Some(Sanlitun))}
           [] prov = "baidu" -> BaiduReverseReplies
           [] prov = "google" ->
                {GoogleReply("error", "OK", <<>>), GoogleReply("ok", "ZERO_RESULTS", <<>>),
                 GoogleReply("ok", "OK", <<Sanlitun>>)}

(* ------------------------------------------------------------------ *)
(* Settings (app/config.py) and the construction of the provider that    *)
(* GeocodingService.initialize binds                                     *)
(* ------------------------------------------------------------------ *)

UpperChars ==
    <<"A", "B", "C", "D", "E", "F", "G", "H", "I", "J", "K", "L", "M",
      "N", "O", "P", "Q", "R", "S", "T", "U", "V", "W", "X", "Y", "Z">>

LowerChars ==
    <<"a", "b", "c", "d", "e", "f", "g", "h", "i", "j", "k", "l", "m",
      "n", "o", "p", "q", "r", "s", "t", "u", "v", "w", "x", "y", "z">>

LowerChar(ch) ==
    IF \E i \in 1..Len(UpperChars) : UpperChars[i] = ch
    THEN LowerChars[CHOOSE i \in 1..Len(UpperChars) : UpperChars[i] = ch]
    ELSE ch

\* str.lower()
Lower(s) == [i \in 1..Len(s) |-> LowerChar(s[i])]

NameAmap == <<"a", "m", "a", "p">>

NameBaidu == <<"b", "a", "i", "d", "u">>

NameGoogle == <<"g", "o", "o", "g", "l", "e">>

\* `a or b` of two strings
StrOr(a, b) == IF a # "" THEN a ELSE b

\* Settings.get_api_key
get_api_key(name, keys) ==
    IF Lower(name) = NameAmap THEN StrOr(keys.AMAP_API_KEY, keys.GEOCODING_API_KEY)
    ELSE IF Lower(name) = NameBaidu
         THEN StrOr(keys.BAIDU_API_KEY, keys.GEOCODING_API_KEY)
    ELSE IF Lower(name) = NameGoogle
         THEN StrOr(keys.GOOGLE_API_KEY, keys.GEOCODING_API_KEY)
    ELSE keys.GEOCODING_API_KEY

\* Settings.get_base_url
get_base_url(name) ==
    IF Lower(name) = NameAmap THEN Ok("AMAP_BASE_URL")
    ELSE IF Lower(name) = NameBaidu THEN Ok("BAIDU_BASE_URL")
    ELSE IF Lower(name) = NameGoogle THEN Ok("GOOGLE_BASE_URL")
    ELSE Fail("ValueError", "unsupported_provider")

\* the check dropped: any key passes
ValidateApiKeyLenient(api_key) == TRUE

\* BaseGeocodingProvider._validate_api_key: `if not self.api_key: raise`
validate_api_key(api_key) == api_key # ""

\* AmapProvider(...), BaiduProvider(...), GoogleProvider(...): the base
\* constructor reads the key and the base URL, then the key is validated
NewProvider(cls, name, keys) ==
    LET api_key == get_api_key(name, keys)
        base_url == get_base_url(name)
    IN  IF ~base_url.ok THEN base_url
        ELSE IF ~validate_api_key(api_key) THEN Fail("ValueError", "missing_api_key")
        ELSE Ok(cls)

\* the provider selection of GeocodingService.initialize: Ok(the adapter) or
\* the ValueError it raises
SelectProvider(name, keys) ==
    LET provider_name == Lower(name)
    IN  IF provider_name = NameAmap THEN NewProvider("amap", name, keys)
        ELSE IF provider_name = NameBaidu THEN NewProvider("baidu", name, keys)
        ELSE IF provider_name = NameGoogle THEN NewProvider("google", name, keys)
        ELSE Fail("ValueError", "unsupported_provider")

\* the status the reachability probe must answer with
HTTP_OK == 200

\* any answer of the probe taken for a healthy one
HealthCheckAnyStatus(hasClient, prov, probe) ==
    IF ~hasClient \/ prov = NoProvider THEN FALSE ELSE ~probe.raised

\* GeocodingService.health_check, given what the probe does
HealthCheck(hasClient, prov, probe) ==
    IF ~hasClient \/ prov = NoProvider THEN FALSE
    ELSE IF probe.raised THEN FALSE
    ELSE probe.status_code = HTTP_OK

\* GeocodingService.get_cache_stats; TTLCache counts no hits or misses
get_cache_stats(enabled, c, t) ==
    IF ~CacheTruthy(enabled, c, t) THEN [enabled |-> FALSE]
    ELSE [enabled |-> TRUE, size |-> CacheLen(c, t), max_size |-> CacheMaxSize,
          ttl |-> CacheTtl, hits |-> 0, misses |-> 0]

\* GeocodingService.get_uptime
get_uptime(service, t) == t - service.start_time

(* ------------------------------------------------------------------ *)
(* State                                                                 *)
(* ------------------------------------------------------------------ *)

VARIABLES
    cacheEnabled,     \* settings.CACHE_ENABLED
    retryTimes,       \* settings.GEOCODING_RETRY_TIMES
    providerName,     \* settings.GEOCODING_PROVIDER
    apiKeys,          \* settings.*_API_KEY
    stage,            \* the process: imported, serving HTTP or MCP, stopped,
                      \* or direct when the service is driven by its caller
    handle,           \* the module-level geocoding_service (None, or the
                      \* service with the time it was constructed at)
    client,           \* GeocodingService.client is set
    provider,         \* GeocodingService.provider, the bound adapter
    initFailed,       \* history: an initialize() of the service has raised
    answer,           \* the outcome of the latest call that is not a request
    cache,            \* GeocodingService.cache (the entries; see CacheTruthy)
    now,              \* the clock the cache's time-to-live is measured on
    pc,               \* per request: where its coroutine stands
    call,             \* per request: the arguments the service was called with
    cache_key,        \* per request: the local cache_key
    retry_count,      \* per request: the local retry_count
    last_exception,   \* per request: the local last_exception
    result,           \* per request: the response returned to the caller
    raised,           \* per request: the error raised to the caller
    entry,            \* history: the entry point the request came through
    input,            \* history: the request as the entry point received it
    calls,            \* history: adapter invocations made for the request
    sent,             \* history: the outbound queries of the request, in order
    received,         \* history: the provider's reply to the latest of them
    sleeps,           \* history: the backoff sleeps of the request, in order
    observed,         \* history: the error the latest failed attempt raised
    source,           \* history: where the returned response came from
    prior,            \* history: the request directly follows a successful,
                      \*          unexpired request with the same parameters
    lastDone,         \* history: the latest completed service call
    submits           \* history: requests submitted so far

vars ==
    <<cacheEnabled, retryTimes, providerName, apiKeys, stage, handle, client,
      provider, initFailed, answer, cache, now, pc, call, cache_key,
      retry_count, last_exception, result, raised, entry, input, calls, sent,
      received, sleeps, observed, source, prior, lastDone, submits>>

\* the settings, which nothing changes
settings == <<cacheEnabled, retryTimes, providerName, apiKeys>>

\* the settings and the service's bindings, which no request changes
config == <<settings, stage, handle, client, provider, initFailed, answer>>

\* the requests and what is recorded of them
requests ==
    <<pc, call, cache_key, retry_count, last_exception, result, raised, entry,
      input, calls, sent, received, sleeps, observed, source, prior, lastDone,
      submits>>

Providers == {"amap", "baidu", "google"}

\* the coroutines that may run side by side
Tasks == {1, 2}

\* the one that runs where requests come one after another
Reqs == {1}

ApiKeys(amap, baidu, google, generic) ==
    [AMAP_API_KEY |-> amap, BAIDU_API_KEY |-> baidu, GOOGLE_API_KEY |-> google,
     GEOCODING_API_KEY |-> generic]

\* no request has been made
NoRequests ==
    /\ cache = <<>>
    /\ now = 0
    /\ pc = [r \in Tasks |-> "NOT_STARTED"]
    /\ call = [r \in Tasks |-> None]
    /\ cache_key = [r \in Tasks |-> None]
    /\ retry_count = [r \in Tasks |-> 0]
    /\ last_exception = [r \in Tasks |-> None]
    /\ result = [r \in Tasks |-> None]
    /\ raised = [r \in Tasks |-> None]
    /\ entry = [r \in Tasks |-> "none"]
    /\ input = [r \in Tasks |-> None]
    /\ calls = [r \in Tasks |-> 0]
    /\ sent = [r \in Tasks |-> <<>>]
    /\ received = [r \in Tasks |-> None]
    /\ sleeps = [r \in Tasks |-> <<>>]
    /\ observed = [r \in Tasks |-> None]
    /\ source = [r \in Tasks |-> "none"]
    /\ prior = [r \in Tasks |-> FALSE]
    /\ lastDone = None
    /\ submits = 0
    /\ answer = None

\* the state after GeocodingService.__init__ and a successful initialize():
\* the cache is a fresh TTLCache when CACHE_ENABLED, None otherwise (no
\* entries either way), and the provider named by the settings is bound
Init ==
    /\ cacheEnabled \in BOOLEAN
    /\ retryTimes \in 0..MaxRetryTimes
    /\ providerName \in {NameAmap, NameBaidu, NameGoogle}
    /\ apiKeys = ApiKeys("amap-key", "baidu-key", "google-key", "")
    /\ stage = "direct"
    /\ handle = Some([start_time |-> 0])
    /\ client = TRUE
    /\ provider = SelectProvider(providerName, apiKeys).value
    /\ initFailed = FALSE
    /\ NoRequests

(* ------------------------------------------------------------------ *)
(* The orchestrator: GeocodingService.geocode / reverse_geocode          *)
(* ------------------------------------------------------------------ *)

GeocodeCall(address, city) == [op |-> "geocode", address |-> address, city |-> city]

ReverseCall(latitude, longitude, radius) ==
    [op |-> "reverse_geocode", latitude |-> latitude, longitude |-> longitude,
     radius |-> radius]

\* the cache key the operation builds for its arguments
KeyOf(c) ==
    IF c.op = "geocode" THEN GeocodeKey(c.address, c.city)
    ELSE ReverseKey(c.latitude, c.longitude, c.radius)

\* the request's parameters, normalized: the city defaults to "", the
\* coordinates are rounded to 6 decimals
Normalized(c) ==
    IF c.op = "geocode" THEN <<c.op, c.address, OrElse(c.city, <<>>)>>
    ELSE <<c.op, Round6(c.latitude), Round6(c.longitude), c.radius>>

\* the loop condition off by one, either way
LoopConditionInclusive(count, times) == count <= times

LoopConditionEarly(count, times) == count + 1 < times

\* `while retry_count < self.settings.GEOCODING_RETRY_TIMES`
LoopCondition(count, times) == count < times

\* `if retry_count < self.settings.GEOCODING_RETRY_TIMES` before the sleep
SleepCondition(count, times) == count < times

\* the exponent counted from zero
WaitTimeFromZero(count) == BACKOFF_BASE ^ (count - 1)

\* `wait_time = 2 ** retry_count`
WaitTime(count) == BACKOFF_BASE ^ count

\* the first exception kept instead of the latest
CaughtFirst(last, e) == IF IsNone(last) THEN Some(e) ELSE last

\* `last_exception = e`
Caught(last, e) == Some(e)

\* `raise last_exception or Exception(...)`: the synthetic error when the
\* loop caught nothing
RaiseAfterLoop(last) ==
    IF IsNone(last) THEN Error("Exception", "generic_failure", 0) ELSE Get(last)

\* `if self.cache:` at the head of the operation
LookupCondition(enabled, c, t) == CacheTruthy(enabled, c, t)

\* `if self.cache and cache_key:` after a successful adapter call
StoreCondition(enabled, c, t, key) == CacheTruthy(enabled, c, t) /\ ~IsNone(key)

\* every outcome written, under whatever key there is
StoresEveryOutcome(enabled, c, t, key, out) ==
    IF enabled THEN CacheSet(c, t, IF IsNone(key) THEN <<>> ELSE Get(key), out) ELSE c

\* the cache after an attempt with outcome `out`: `self.cache[cache_key] =
\* result` is on the success path only, an exception skips it
AfterAttempt(enabled, c, t, key, out) ==
    IF out.ok /\ StoreCondition(enabled, c, t, key)
    THEN CacheSet(c, t, Get(key), out.value)
    ELSE c

Idle(r) == pc[r] \in {"NOT_STARTED", "DONE", "ERROR", "REJECTED"}

\* the counter and the error slot kept on the service, one for all requests
SetRequestShared(r, p, c, key, count, last, res, err) ==
    /\ pc' = [pc EXCEPT ![r] = p]
    /\ call' = [call EXCEPT ![r] = c]
    /\ cache_key' = [cache_key EXCEPT ![r] = key]
    /\ retry_count' = [q \in Tasks |-> count]
    /\ last_exception' = [q \in Tasks |-> last]
    /\ result' = [result EXCEPT ![r] = res]
    /\ raised' = [raised EXCEPT ![r] = err]

\* the request's locals and outcome
SetRequest(r, p, c, key, count, last, res, err) ==
    /\ pc' = [pc EXCEPT ![r] = p]
    /\ call' = [call EXCEPT ![r] = c]
    /\ cache_key' = [cache_key EXCEPT ![r] = key]
    /\ retry_count' = [retry_count EXCEPT ![r] = count]
    /\ last_exception' = [last_exception EXCEPT ![r] = last]
    /\ result' = [result EXCEPT ![r] = res]
    /\ raised' = [raised EXCEPT ![r] = err]

\* a request arrives at entry point e
Arrival(r, e, inp) ==
    /\ Idle(r)
    /\ submits < MaxSubmits
    /\ submits' = submits + 1
    /\ entry' = [entry EXCEPT ![r] = e]
    /\ input' = [input EXCEPT ![r] = Some(inp)]
    /\ sleeps' = [sleeps EXCEPT ![r] = <<>>]
    /\ observed' = [observed EXCEPT ![r] = None]
    /\ received' = [received EXCEPT ![r] = None]
    /\ now' = now

\* it arrives at a service that is already there
Arrive(r, e, inp) == Arrival(r, e, inp) /\ UNCHANGED config

\* the entry point turns the request down before the service is called
Reject(r, cls) ==
    /\ SetRequest(r, "REJECTED", None, None, 0, None, None,
                  Some(Error(cls, "request_rejected", 0)))
    /\ calls' = [calls EXCEPT ![r] = 0]
    /\ sent' = [sent EXCEPT ![r] = <<>>]
    /\ source' = [source EXCEPT ![r] = "none"]
    /\ prior' = [prior EXCEPT ![r] = FALSE]
    /\ UNCHANGED <<cache, lastDone>>

\* whether a request with arguments c directly follows a successful request
\* with the same normalized parameters whose result is still within the TTL
Follows(c) ==
    /\ ~IsNone(lastDone)
    /\ Get(lastDone).params = Normalized(c)
    /\ now < Get(lastDone).at + CacheTtl

\* the service operation from its first line to its first await: the cache
\* lookup, and on a miss the head of the retry loop
Serve(r, c) ==
    LET lookup == LookupCondition(cacheEnabled, cache, now)
        key == IF lookup THEN Some(KeyOf(c)) ELSE None
        cached == IF lookup THEN CacheGet(cache, now, Get(key)) ELSE None
        hit == ~IsNone(cached)
        enter == LoopCondition(0, retryTimes)
    IN  /\ SetRequest(r,
                      IF hit THEN "DONE" ELSE IF enter THEN "CALLING" ELSE "ERROR",
                      Some(c), key, 0, None,
                      IF hit THEN cached ELSE None,
                      IF ~hit /\ ~enter THEN Some(RaiseAfterLoop(None)) ELSE None)
        /\ calls' = [calls EXCEPT ![r] = IF ~hit /\ enter THEN 1 ELSE 0]
        /\ sent' = [sent EXCEPT ![r] = IF ~hit /\ enter THEN Outbound(provider', c)
                                       ELSE <<>>]
        /\ source' = [source EXCEPT ![r] = IF hit THEN "cache" ELSE "none"]
        /\ prior' = [prior EXCEPT ![r] = Follows(c)]
        /\ lastDone' = IF hit THEN Some([params |-> Normalized(c), at |-> now])
                       ELSE IF ~enter THEN None
                       ELSE lastDone
        /\ UNCHANGED cache

\* GeocodingService.geocode called directly
geocode(r, address, city) ==
    /\ Arrive(r, "service", GeocodeCall(address, city))
    /\ Serve(r, GeocodeCall(address, city))

\* GeocodingService.reverse_geocode called directly; radius defaults to 1000
reverse_geocode(r, latitude, longitude, radius) ==
    /\ Arrive(r, "service", ReverseCall(latitude, longitude, radius))
    /\ Serve(r, ReverseCall(latitude, longitude,
                            IF IsNone(radius) THEN DEFAULT_RADIUS ELSE Get(radius)))

\* the head of the retry loop, reached again after a failed attempt
LoopHead(r, count, last) ==
    IF LoopCondition(count, retryTimes)
    THEN /\ SetRequest(r, "CALLING", call[r], cache_key[r], count, last, None, None)
         /\ calls' = [calls EXCEPT ![r] = @ + 1]
         /\ sent' = [sent EXCEPT ![r] = @ \o Outbound(provider, Get(call[r]))]
         /\ UNCHANGED lastDone
    ELSE /\ SetRequest(r, "ERROR", call[r], cache_key[r], count, last, None,
                       Some(RaiseAfterLoop(last)))
         /\ lastDone' = None
         /\ UNCHANGED <<calls, sent>>

\* the awaited adapter call of one attempt comes back: with a response, which
\* is stored and returned, or with an exception, which the loop catches
provider_returns(r, reply) ==
    /\ pc[r] = "CALLING"
    /\ received' = [received EXCEPT ![r] = Some(reply)]
    /\ LET out == ProviderCall(provider, Get(call[r]), reply)
       IN  IF out.ok
           THEN /\ cache' = AfterAttempt(cacheEnabled, cache, now, cache_key[r], out)
                /\ SetRequest(r, "DONE", call[r], cache_key[r], retry_count[r],
                              last_exception[r], Some(out.value), None)
                /\ source' = [source EXCEPT ![r] = "adapter"]
                /\ lastDone' = Some([params |-> Normalized(Get(call[r])), at |-> now])
                /\ UNCHANGED <<calls, sent, sleeps, observed>>
           ELSE LET e == Error(out.cls, out.msg, retry_count[r] + 1)
                    last == Caught(last_exception[r], e)
                    count == retry_count[r] + 1
                IN  /\ observed' = [observed EXCEPT ![r] = Some(e)]
                    /\ IF SleepCondition(count, retryTimes)
                       THEN /\ SetRequest(r, "RETRY_WAIT", call[r], cache_key[r], count,
                                          last, None, None)
                            /\ sleeps' = [sleeps EXCEPT ![r] = Append(@, WaitTime(count))]
                            /\ UNCHANGED <<calls, sent, lastDone>>
                       ELSE /\ LoopHead(r, count, last)
                            /\ UNCHANGED sleeps
                    /\ cache' = AfterAttempt(cacheEnabled, cache, now, cache_key[r], out)
                    /\ UNCHANGED source
    /\ UNCHANGED <<config, now, entry, input, prior, submits>>

\* the awaited asyncio.sleep(wait_time) comes back: the loop goes round
sleep_returns(r) ==
    /\ pc[r] = "RETRY_WAIT"
    /\ LoopHead(r, retry_count[r], last_exception[r])
    /\ UNCHANGED <<config, cache, now, entry, input, received, sleeps, observed,
                   source, prior, submits>>

\* time passes
Tick ==
    /\ now < MaxTime
    /\ now' = now + 1
    /\ UNCHANGED <<config, cache, pc, call, cache_key, retry_count, last_exception,
                   result, raised, entry, input, calls, sent, received, sleeps,
                   observed, source, prior, lastDone, submits>>

(* ------------------------------------------------------------------ *)
(* The entry points: the HTTP routes (app/main.py) and the MCP tools      *)
(* (mcp_server.py)                                                        *)
(* ------------------------------------------------------------------ *)

\* POST /geocode: the body is parsed into a GeocodeRequest (422 on failure),
\* then `service.geocode(request.address)`
http_geocode(r, address, city) ==
    /\ Arrive(r, "http", GeocodeCall(address, city))
    /\ IF GeocodeRequestAccepts(address)
       THEN Serve(r, GeocodeCall(GeocodeRequest(address, city).address, None))
       ELSE Reject(r, "ValidationError")

\* POST /reverse-geocode: the body is parsed into a ReverseGeocodeRequest,
\* then `service.reverse_geocode(request.latitude, request.longitude)`
http_reverse_geocode(r, latitude, longitude, radius) ==
    /\ Arrive(r, "http", ReverseCall(latitude, longitude, radius))
    /\ IF ReverseGeocodeRequestAccepts(latitude, longitude, radius)
       THEN Serve(r, ReverseCall(latitude, longitude, DEFAULT_RADIUS))
       ELSE Reject(r, "ValidationError")

\* geocode_tool: `if not address: raise ValueError`, then GeocodeRequest, then
\* `geocoding_service.geocode(request.address, request.city)`
GeocodeTool(r, address, city) ==
    IF Len(address) = 0 THEN Reject(r, "ValueError")
    ELSE IF ~GeocodeRequestAccepts(address) THEN Reject(r, "ValidationError")
    ELSE Serve(r, GeocodeCall(GeocodeRequest(address, city).address,
                              GeocodeRequest(address, city).city))

geocode_tool(r, address, city) ==
    /\ Arrive(r, "mcp", GeocodeCall(address, city))
    /\ GeocodeTool(r, address, city)

\* reverse_geocode_tool: radius = arguments.get("radius", 1000), then
\* ReverseGeocodeRequest, then `geocoding_service.reverse_geocode(
\* request.latitude, request.longitude, request.radius)`
ReverseGeocodeTool(r, latitude, longitude, radius) ==
    LET given == IF IsNone(radius) THEN DEFAULT_RADIUS ELSE Get(radius)
    IN  IF ReverseGeocodeRequestAccepts(latitude, longitude, Some(given))
        THEN Serve(r, ReverseCall(latitude, longitude, given))
        ELSE Reject(r, "ValidationError")

reverse_geocode_tool(r, latitude, longitude, radius) ==
    /\ Arrive(r, "mcp", ReverseCall(latitude, longitude, radius))
    /\ ReverseGeocodeTool(r, latitude, longitude, radius)

(* ------------------------------------------------------------------ *)
(* The life of the service: construction and initialize() at startup, or *)
(* at the first MCP dispatch, and the calls that are not requests         *)
(* ------------------------------------------------------------------ *)

\* `GeocodingService()` then `initialize()`: the module-level handle is set
\* first; initialize sets the client, then binds the provider `out` or
\* raises the error `out`
Construct(out) ==
    /\ handle' = Some([start_time |-> now])
    /\ client' = TRUE
    /\ provider' = IF out.ok THEN out.value ELSE NoProvider
    /\ initFailed' = (initFailed \/ ~out.ok)

\* the startup half of lifespan (app/main.py): a failure ends the startup
lifespan ==
    /\ stage = "imported"
    /\ LET out == SelectProvider(providerName, apiKeys)
       IN  /\ Construct(out)
           /\ stage' = IF out.ok THEN "http" ELSE "stopped"
           /\ answer' = Some([op |-> "lifespan", value |-> out])
    /\ cache' = <<>>
    /\ UNCHANGED <<settings, now, requests>>

\* initialize_service() as main() of mcp_server.py calls it: a failure is
\* raised again and ends the process
mcp_main ==
    /\ stage = "imported"
    /\ LET out == SelectProvider(providerName, apiKeys)
       IN  /\ Construct(out)
           /\ stage' = IF out.ok THEN "mcp" ELSE "stopped"
           /\ answer' = Some([op |-> "initialize_service", value |-> out])
    /\ cache' = <<>>
    /\ UNCHANGED <<settings, now, requests>>

\* health_check_tool: the three calls on the service, reported together
HealthCheckTool(probe) ==
    IF IsNone(handle')
    THEN [status |-> "uninitialised"]
    ELSE [status |-> IF HealthCheck(client', provider', probe) THEN "healthy"
                     ELSE "unhealthy",
          uptime_seconds |-> get_uptime(Get(handle'), now),
          cache_stats |-> get_cache_stats(cacheEnabled, cache, now)]

\* dispatch, the registered call_tool handler: `if not geocoding_service:
\* await initialize_service()`, then the tool called `name`. The service a
\* first dispatch constructs has a fresh cache, as the process had before.
dispatch(r, name, arguments, probe) ==
    /\ stage \in {"imported", "mcp"}
    /\ stage' = "mcp"
    /\ UNCHANGED settings
    /\ LET first == IsNone(handle)
           out == SelectProvider(providerName, apiKeys)
       IN  IF first /\ ~out.ok
           THEN /\ Construct(out)
                /\ answer' = Some([op |-> "initialize_service", value |-> out])
                /\ UNCHANGED <<cache, now, requests>>
           ELSE /\ IF first THEN Construct(out)
                   ELSE UNCHANGED <<handle, client, provider, initFailed>>
                /\ CASE name = "geocode" ->
                          /\ Arrival(r, "mcp",
                                     GeocodeCall(arguments.address, arguments.city))
                          /\ GeocodeTool(r, arguments.address, arguments.city)
                          /\ UNCHANGED answer
                     [] name = "reverse_geocode" ->
                          /\ Arrival(r, "mcp",
                                     ReverseCall(arguments.latitude, arguments.longitude,
                                                 arguments.radius))
                          /\ ReverseGeocodeTool(r, arguments.latitude,
                                                arguments.longitude, arguments.radius)
                          /\ UNCHANGED answer
                     [] name = "health_check" ->
                          /\ answer' = Some([op |-> "health_check_tool",
                                             value |-> HealthCheckTool(probe)])
                          /\ UNCHANGED <<cache, now, requests>>
                     [] OTHER ->
                          /\ answer' = Some([op |-> "dispatch",
                                             value |-> Fail("ValueError", "unknown_tool")])
                          /\ UNCHANGED <<cache, now, requests>>

\* a method that drops the provider it read
Unbinds ==
    /\ provider' = NoProvider
    /\ UNCHANGED <<settings, stage, handle, client, initFailed, cache, now, requests>>

\* health_check, get_cache_stats and get_uptime assign nothing
ReadOnly ==
    UNCHANGED <<settings, stage, handle, client, provider, initFailed, cache, now,
                requests>>

\* a call on the service the process holds
Held == ~IsNone(handle) /\ stage # "stopped"

\* GeocodingService.health_check
health_check(probe) ==
    /\ Held
    /\ answer' = Some([op |-> "health_check", probe |-> probe,
                       value |-> HealthCheck(client, provider, probe)])
    /\ ReadOnly

\* GeocodingService.get_cache_stats
cache_stats ==
    /\ Held
    /\ answer' = Some([op |-> "get_cache_stats",
                       value |-> get_cache_stats(cacheEnabled, cache, now)])
    /\ ReadOnly

\* GeocodingService.get_uptime
uptime ==
    /\ Held
    /\ answer' = Some([op |-> "get_uptime", value |-> get_uptime(Get(handle), now)])
    /\ ReadOnly

(* ------------------------------------------------------------------ *)
(* Inputs                                                                *)
(* ------------------------------------------------------------------ *)

\* addresses are at most this long
MaxAddressLen == 2

AddressChars == {" ", "a"}

RECURSIVE StringsUpTo(_)
StringsUpTo(n) ==
    IF n = 0 THEN {<<>>}
    ELSE LET shorter == StringsUpTo(n - 1)
         IN  shorter \cup {Append(s, ch) : s \in shorter, ch \in AddressChars}

Addresses == StringsUpTo(MaxAddressLen)

Cities == {None, Some(<<>>), Some(<<"c">>)}

Coordinates(latitude, longitude, radius) ==
    [latitude |-> latitude, longitude |-> longitude, radius |-> radius]

\* reverse requests: in range, on the limits, and out of range in each field
ReverseInputs ==
    {Coordinates(LatSanlitun, LngSanlitun, rad) :
        rad \in {None, Some(RADIUS_MIN), Some(RADIUS_MAX), Some(RADIUS_MIN - 1),
                 Some(RADIUS_MAX + 1), Some(AMAP_MAX_RADIUS + 1)}}
    \cup {Coordinates(-LAT_LIMIT * Deg, LNG_LIMIT * Deg, None),
          Coordinates((LAT_LIMIT + 1) * Deg, (LNG_LIMIT + 1) * Deg, None),
          Coordinates(LAT_LIMIT * Deg + 1, LngSanlitun, None),
          Coordinates(-LAT_LIMIT * Deg - 1, LngSanlitun, None),
          Coordinates(LatSanlitun, LNG_LIMIT * Deg + 1, None),
          Coordinates(LatSanlitun, -LNG_LIMIT * Deg - 1, None)}

\* the requests of the orchestrator's specification: two addresses, with and
\* without a city, and two coordinates that round to the same 6 decimals
FewAddresses == {<<"a">>, <<"a", "a">>}

FewCities == {None, Some(<<"c">>)}

FewReverseInputs ==
    {Coordinates(LatSanlitun, LngSanlitun, None),
     Coordinates(LatSanlitun + 4, LngSanlitun, None)}

\* nothing was sent, nothing comes back
NoReply == [transport |-> "unsent"]

\* the replies the provider may give to the request's pending call
Pending(r, wide) ==
    IF pc[r] # "CALLING" THEN {}
    ELSE IF provider = NoProvider THEN {NoReply}
    ELSE IF wide THEN Replies(provider, Get(call[r]).op)
    ELSE FewReplies(provider, Get(call[r]).op)

(* ------------------------------------------------------------------ *)
(* Specifications                                                        *)
(* ------------------------------------------------------------------ *)

\* the orchestrator, called directly
Next ==
    \E r \in Reqs :
        \/ \E a \in FewAddresses, c \in FewCities : geocode(r, a, c)
        \/ \E q \in FewReverseInputs :
              reverse_geocode(r, q.latitude, q.longitude, q.radius)
        \/ \E reply \in Pending(r, FALSE) : provider_returns(r, reply)
        \/ sleep_returns(r)
        \/ Tick

Spec == Init /\ [][Next]_vars

\* the entry points in front of the orchestrator, over all inputs; each
\* behaviour follows one request
NextEntry ==
    \E r \in Reqs :
        \/ \E a \in Addresses, c \in Cities :
              submits = 0 /\ geocode(r, a, c)
        \/ \E a \in Addresses, c \in Cities :
              submits = 0 /\ http_geocode(r, a, c)
        \/ \E a \in Addresses, c \in Cities :
              submits = 0 /\ geocode_tool(r, a, c)
        \/ \E q \in ReverseInputs :
              submits = 0
              /\ reverse_geocode(r, q.latitude, q.longitude, q.radius)
        \/ \E q \in ReverseInputs :
              submits = 0
              /\ http_reverse_geocode(r, q.latitude, q.longitude, q.radius)
        \/ \E q \in ReverseInputs :
              submits = 0
              /\ reverse_geocode_tool(r, q.latitude, q.longitude, q.radius)
        \/ \E reply \in Pending(r, FALSE) : provider_returns(r, reply)
        \/ sleep_returns(r)

SpecEntry == Init /\ [][NextEntry]_vars

\* the adapters, over all replies of the providers
NextAdapter ==
    \E r \in Reqs :
        \/ \E a \in FewAddresses : geocode(r, a, None)
        \/ \E q \in FewReverseInputs :
              reverse_geocode(r, q.latitude, q.longitude, q.radius)
        \/ \E reply \in Pending(r, TRUE) : provider_returns(r, reply)
        \/ sleep_returns(r)

SpecAdapter == Init /\ [][NextAdapter]_vars

\* two coroutines on one service, each with one request for the same
\* address; their awaits interleave
NextConcurrent ==
    \E r \in Tasks :
        \/ pc[r] = "NOT_STARTED" /\ geocode(r, <<"a">>, None)
        \/ \E reply \in Pending(r, FALSE) : provider_returns(r, reply)
        \/ sleep_returns(r)

SpecConcurrent == Init /\ [][NextConcurrent]_vars

\* the confidence adapter `prov` gives a result with precision indicator x
ConfidenceOf(prov, x) ==
    CASE prov = "amap" -> amap_calculate_confidence(x)
      [] prov = "baidu" -> BaiduConfidence(x)
      [] prov = "google" -> google_calculate_confidence(x)

\* the confidence computation of one adapter applied to two indicators
calculate_confidence(prov, x, y) ==
    /\ answer' = Some([op |-> "_calculate_confidence", provider |-> prov,
                       indicators |-> <<x, y>>,
                       value |-> <<ConfidenceOf(prov, x), ConfidenceOf(prov, y)>>])
    /\ ReadOnly

\* Amap's levels: those of the table, none, and one the table does not have
AmapLevels == DOMAIN AmapLevelConfidence \cup {"", "unknown"}

\* Google's location types, likewise
GoogleTypes == DOMAIN GoogleTypeConfidence \cup {"", "OTHER"}

\* Baidu's confidence percentages
BaiduPercents == {0, 1, 49, 50, 80, 99, 100}

\* the precision indicators of one provider
Indicators(prov) ==
    CASE prov = "amap" -> AmapLevels
      [] prov = "baidu" -> BaiduPercents
      [] prov = "google" -> GoogleTypes

\* the confidence computations of the three adapters over their indicators
NextConfidence ==
    \E prov \in Providers :
        \E x \in Indicators(prov), y \in Indicators(prov) :
            calculate_confidence(prov, x, y)

SpecConfidence == Init /\ [][NextConfidence]_vars

\* the arguments of the operation, as the keyword arguments it passes to
\* _get_cache_key
ItemsOf(c) ==
    IF c.op = "geocode" THEN GeocodeItems(c.address, c.city)
    ELSE ReverseItems(c.latitude, c.longitude, c.radius)

\* the same pairs, last first
Reversed(items) == [i \in 1..Len(items) |-> items[Len(items) + 1 - i]]

\* _get_cache_key applied to the arguments of two calls of the service, and
\* to those of the first passed in the opposite order
cache_keys(c, d) ==
    /\ answer' = Some([op |-> "_get_cache_key",
                       value |-> [calls |-> <<c, d>>,
                                  keys |-> <<KeyOf(c), KeyOf(d)>>,
                                  reordered |-> get_cache_key(c.op, Reversed(ItemsOf(c)))]])
    /\ ReadOnly

\* addresses and cities for the keys: plain ones, and ones that hold the
\* separator and a parameter name
KeyAddresses ==
    {<<"a">>, <<"b">>, <<"a", ":", "c", "i", "t", "y", ":">>, <<"a", ":">>}

KeyCities == {None, Some(<<"c">>), Some(<<":", "c", "i", "t", "y", ":">>), Some(<<":">>)}

\* coordinates for the keys: pairs on either side of a rounding step, of
\* zero, and of the switch of the float format
KeyLatitudes ==
    {LatSanlitun, LatSanlitun + 4, LatSanlitun + 6, -LatSanlitun, 0, 1, -1, 14, 996}

KeyCalls ==
    {GeocodeCall(a, c) : a \in KeyAddresses, c \in KeyCities}
    \cup {ReverseCall(lat, LngSanlitun, DEFAULT_RADIUS) : lat \in KeyLatitudes}
    \cup {ReverseCall(LatSanlitun, lng, rad) :
            lng \in {LngSanlitun + 4, -1}, rad \in {DEFAULT_RADIUS, RADIUS_MIN}}

\* the key construction over pairs of calls, one pair in each behaviour
NextCacheKey ==
    \E c \in KeyCalls, d \in KeyCalls : IsNone(answer) /\ cache_keys(c, d)

\* the client's timeout (httpx.Timeout(GEOCODING_TIMEOUT)) ends the awaited
\* request with a transport exception
TimeoutReply == [transport |-> "timeout"]

\* the ways the request's pending call may come back, a timeout among them
Returns(r) == Pending(r, FALSE) \cup (IF pc[r] = "CALLING" THEN {TimeoutReply} ELSE {})

\* one request for each behaviour, whose awaits all come back
NextLive ==
    \E r \in Reqs :
        \/ \E a \in FewAddresses : submits = 0 /\ geocode(r, a, None)
        \/ \E q \in FewReverseInputs :
              submits = 0 /\ reverse_geocode(r, q.latitude, q.longitude, q.radius)
        \/ \E reply \in Returns(r) : provider_returns(r, reply)
        \/ sleep_returns(r)

\* every adapter call and every backoff sleep eventually returns
Fairness ==
    /\ WF_vars(\E r \in Reqs : \E reply \in Returns(r) : provider_returns(r, reply))
    /\ WF_vars(\E r \in Reqs : sleep_returns(r))

SpecLive == Init /\ [][NextLive]_vars /\ Fairness

\* one service, its cache enabled
InitCacheKey ==
    Init /\ cacheEnabled /\ retryTimes = 1 /\ providerName = NameAmap

SpecCacheKey == InitCacheKey /\ [][NextCacheKey]_vars

\* GEOCODING_PROVIDER as it may be set: the three names, one of them in
\* capitals, a name that is not supported, and nothing
ProviderNames ==
    {NameAmap, <<"A", "M", "A", "P">>, NameBaidu, NameGoogle,
     <<"b", "i", "n", "g">>, <<>>}

\* the keys as they may be set: the providers' own keys missing or not, the
\* generic key missing or not
KeySettings ==
    {ApiKeys(own, own, own, generic) :
        own \in {"", "own-key"}, generic \in {"", "generic-key"}}

\* the process has imported its modules and started nothing
InitStartup ==
    /\ cacheEnabled \in BOOLEAN
    /\ retryTimes \in 0..MaxRetryTimes
    /\ providerName \in ProviderNames
    /\ apiKeys \in KeySettings
    /\ stage = "imported"
    /\ handle = None
    /\ client = FALSE
    /\ provider = NoProvider
    /\ initFailed = FALSE
    /\ NoRequests

\* what the reachability probe may do
Probes ==
    {[raised |-> FALSE, status_code |-> HTTP_OK],
     [raised |-> FALSE, status_code |-> 503],
     [raised |-> TRUE, status_code |-> 0]}

\* the tool calls a client may send
ToolCalls ==
    {[name |-> "geocode", arguments |-> [address |-> <<"a">>, city |-> None]],
     [name |-> "reverse_geocode",
      arguments |-> Coordinates(LatSanlitun, LngSanlitun, None)],
     [name |-> "health_check", arguments |-> <<>>],
     [name |-> "route", arguments |-> <<>>]}

\* the process from its start: startup or first dispatch, then one request
\* through an entry point, and the calls that are not requests
NextLifecycle ==
    \E r \in Reqs :
        \/ lifespan
        \/ mcp_main
        \/ \E t \in ToolCalls, probe \in Probes :
              submits = 0 /\ dispatch(r, t.name, t.arguments, probe)
        \/ submits = 0 /\ stage = "http" /\ http_geocode(r, <<"a">>, None)
        \/ submits = 0 /\ stage = "http"
              /\ http_reverse_geocode(r, LatSanlitun, LngSanlitun, None)
        \/ \E probe \in Probes : health_check(probe)
        \/ cache_stats
        \/ uptime
        \/ \E reply \in Pending(r, FALSE) : provider_returns(r, reply)
        \/ sleep_returns(r)

SpecLifecycle == InitStartup /\ [][NextLifecycle]_vars

(* ------------------------------------------------------------------ *)
(* Properties                                                            *)
(* ------------------------------------------------------------------ *)

Finished(r) == pc[r] \in {"DONE", "ERROR"}

\* C1: with caching enabled, a request that directly follows a successful
\* request with the same normalized parameters, inside the TTL window, is
\* answered from the cache and invokes the adapter zero times (so N
\* consecutive identical calls invoke the adapter at most once in total).
C1_CacheIdempotence ==
    \A r \in Reqs :
        (cacheEnabled /\ prior[r]) => (calls[r] = 0 /\ source[r] = "cache")

\* C2: with caching enabled, in the step in which a call returns a response
\* obtained from the adapter, the cache holds that response under the
\* request's cache key.
C2_StoreOnSuccess ==
    [][\A r \in Reqs :
          (cacheEnabled /\ pc[r] = "CALLING" /\ pc'[r] = "DONE")
              => CacheGet(cache', now', KeyOf(Get(call[r]))) = result'[r]]_vars

\* C3: with GEOCODING_RETRY_TIMES = N >= 1 no request invokes the adapter more
\* than N times, and a request that fails has invoked it exactly N times and
\* raises the error the adapter raised.
C3_RetryBound ==
    \A r \in Reqs :
        retryTimes >= 1 =>
            /\ calls[r] <= retryTimes
            /\ pc[r] = "ERROR" =>
                  /\ calls[r] = retryTimes
                  /\ raised[r] = observed[r]
                  /\ Get(raised[r]).msg # "generic_failure"

C3_Witness ==
    \E r \in Reqs : pc[r] = "ERROR" /\ retryTimes = 3 /\ calls[r] = 3

\* C4: a request answered by the adapter on its k-th attempt has invoked the
\* adapter exactly k times, k - 1 of them failed, k <= GEOCODING_RETRY_TIMES,
\* it slept once per failed attempt and not again, and it raises nothing.
C4_RetryUntilSuccess ==
    \A r \in Reqs :
        (pc[r] = "DONE" /\ source[r] = "adapter") =>
            /\ calls[r] = retry_count[r] + 1
            /\ calls[r] <= retryTimes
            /\ Len(sleeps[r]) = retry_count[r]
            /\ ~IsNone(result[r])
            /\ IsNone(raised[r])

C4_Witness ==
    \E r \in Reqs :
        /\ pc[r] = "DONE" /\ source[r] = "adapter"
        /\ retry_count[r] = 2 /\ calls[r] = 3 /\ retryTimes = 3

\* the waits 2^1, 2^2, ... written out
BackoffSchedule == <<2, 4, 8, 16, 32, 64>>

\* C5: the a-th sleep of a request lasts 2^a; a request has slept once per
\* failed attempt while another attempt follows (a < GEOCODING_RETRY_TIMES),
\* not before its first attempt and not after its final failed attempt.
C5_BackoffSchedule ==
    \A r \in Reqs :
        /\ sleeps[r] = SubSeq(BackoffSchedule, 1, Len(sleeps[r]))
        /\ pc[r] \in {"CALLING", "DONE"} => Len(sleeps[r]) = retry_count[r]
        /\ pc[r] = "RETRY_WAIT" =>
              (Len(sleeps[r]) = calls[r] /\ calls[r] < retryTimes)
        /\ (pc[r] = "ERROR" /\ calls[r] > 0) => Len(sleeps[r]) = calls[r] - 1

C5_Witness ==
    \E r \in Reqs : pc[r] = "ERROR" /\ sleeps[r] = <<2, 4>> /\ calls[r] = 3

\* C6: a failed request raises the very error its last attempt raised; the
\* synthetic generic error is raised exactly when no attempt was made, which
\* happens exactly when GEOCODING_RETRY_TIMES <= 0.
C6_ErrorPropagation ==
    \A r \in Reqs :
        pc[r] = "ERROR" =>
            /\ ~IsNone(raised[r])
            /\ calls[r] > 0 =>
                  (raised[r] = observed[r] /\ Get(raised[r]).attempt = calls[r])
            /\ (Get(raised[r]).msg = "generic_failure") <=> (calls[r] = 0)
            /\ (calls[r] = 0) <=> (retryTimes <= 0)

C6_Witness ==
    \E r \in Reqs :
        /\ pc[r] = "ERROR" /\ calls[r] = 3
        /\ raised[r] = observed[r] /\ Get(raised[r]).attempt = 3

\* C7 as stated: with caching disabled nothing is stored, and every finished
\* request that met no adapter failure has invoked the adapter exactly once.
C7_CacheDisabled_Original ==
    \A r \in Reqs :
        ~cacheEnabled =>
            /\ Len(cache) = 0
            /\ (Finished(r) /\ IsNone(observed[r])) => calls[r] = 1

\* C7: with caching disabled and GEOCODING_RETRY_TIMES >= 1 nothing is
\* stored, no request is answered from the cache, and every finished request
\* that met no adapter failure has invoked the adapter exactly once.
C7_CacheDisabled ==
    \A r \in Reqs :
        (~cacheEnabled /\ retryTimes >= 1) =>
            /\ Len(cache) = 0
            /\ source[r] # "cache"
            /\ (Finished(r) /\ IsNone(observed[r])) => calls[r] = 1

C7_Witness ==
    \E r \in Reqs :
        /\ ~cacheEnabled /\ prior[r] /\ submits >= 2
        /\ pc[r] = "DONE" /\ source[r] = "adapter" /\ calls[r] = 1

\* a reverse request with the latitude outside [-90, 90], the longitude
\* outside [-180, 180] or the radius outside [1, 50000]
OutOfRange(q) ==
    \/ q.latitude < -90 * Deg \/ q.latitude > 90 * Deg
    \/ q.longitude < -180 * Deg \/ q.longitude > 180 * Deg
    \/ (~IsNone(q.radius) /\ (Get(q.radius) < 1 \/ Get(q.radius) > 50000))

\* C8: an out-of-range reverse request is rejected with a validation error
\* and no adapter call is made for it, whether it is given to the HTTP
\* route, to the MCP tool or to reverse_geocode itself.
C8_ReverseValidation ==
    \A r \in Reqs :
        (~IsNone(input[r]) /\ Get(input[r]).op = "reverse_geocode"
         /\ OutOfRange(Get(input[r])))
            => /\ pc[r] = "REJECTED"
               /\ calls[r] = 0
               /\ Get(raised[r]).cls = "ValidationError"

\* only whitespace, or nothing at all
Blank(s) == \A i \in 1..Len(s) : s[i] = " "

\* C9: through the HTTP route and the MCP tool a blank address is rejected
\* without any service or adapter call, and an accepted request reaches the
\* service, and through it the adapter, with its address trimmed.
C9_BlankAndTrim ==
    \A r \in Reqs :
        (entry[r] \in {"http", "mcp"} /\ Get(input[r]).op = "geocode") =>
            /\ Blank(Get(input[r]).address) =>
                  (pc[r] = "REJECTED" /\ calls[r] = 0 /\ IsNone(call[r]))
            /\ ~IsNone(call[r]) =>
                  /\ ~Blank(Get(input[r]).address)
                  /\ Get(call[r]).address = Strip(Get(input[r]).address)

C9_Witness ==
    \E r \in Reqs :
        /\ entry[r] = "mcp" /\ pc[r] = "DONE" /\ calls[r] = 1
        /\ Get(input[r]).address = <<" ", "a">>
        /\ Get(call[r]).address = <<"a">>

\* the errors that count as provider errors: the adapter's own exceptions,
\* transport failures, and a provider string that cannot be parsed
ProviderErrorClasses == {"Exception", "HTTPError", "ValueError"}

\* C10: geocode either returns a response with latitude in [-90, 90] and
\* longitude in [-180, 180] or fails with a provider error, whatever the
\* provider replies.
C10_ResultRange ==
    \A r \in Reqs :
        (~IsNone(call[r]) /\ Get(call[r]).op = "geocode") =>
            /\ pc[r] = "DONE" =>
                  /\ -90 * Deg <= Get(result[r]).latitude
                  /\ Get(result[r]).latitude <= 90 * Deg
                  /\ -180 * Deg <= Get(result[r]).longitude
                  /\ Get(result[r]).longitude <= 180 * Deg
            /\ pc[r] = "ERROR" => Get(raised[r]).cls \in ProviderErrorClasses

\* the errors that cannot succeed on retry: a model rejecting a value, and
\* a call on a service whose provider is not bound
UnretriableClasses == {"ValidationError", "AttributeError"}

\* C11: when an attempt fails with a validation error or a configuration
\* error the orchestrator makes no further attempt and performs no backoff
\* sleep after it: the request ends with that error at that attempt.
C11_OnlyProviderErrorsRetried ==
    \A r \in Reqs :
        (~IsNone(observed[r]) /\ Get(observed[r]).cls \in UnretriableClasses) =>
            /\ pc[r] = "ERROR"
            /\ calls[r] = Get(observed[r]).attempt
            /\ Len(sleeps[r]) = Get(observed[r]).attempt - 1
            /\ raised[r] = observed[r]

\* the latest answer is that of the call `op`
Answered(op) == ~IsNone(answer) /\ Get(answer).op = op

\* the step is a call `op` that answers
Answers(op) ==
    /\ ~IsNone(answer')
    /\ Get(answer').op = op
    /\ (IsNone(answer) \/ Get(answer).op # op \/ Get(answer) # Get(answer'))

\* C12: every health_check returns a boolean and raises nothing: true exactly
\* when the client and the provider are set and the probe answers 200, false
\* when one of them is unset, when the probe raises and when it answers with
\* another status; the call invokes no adapter and leaves the cache, the
\* provider and every request as they were.
C12_HealthCheck ==
    [][Answers("health_check") =>
          /\ Get(answer').value \in BOOLEAN
          /\ Get(answer').value
                = (/\ client
                   /\ provider \in Providers
                   /\ ~Get(answer').probe.raised
                   /\ Get(answer').probe.status_code = 200)
          /\ UNCHANGED <<cache, provider, client, handle, requests>>]_vars

C12_Witness ==
    /\ Answered("health_check")
    /\ provider \in Providers
    /\ ~Get(answer).probe.raised
    /\ Get(answer).probe.status_code = 503
    /\ Get(answer).value = FALSE

\* C13: with caching enabled every get_cache_stats answers enabled = true
\* with the current number of entries and the configured maximum size and
\* time-to-live, whatever the cache holds, the empty cache included; with
\* caching disabled it answers enabled = false; the cache is left as it was.
C13_CacheStats ==
    [][Answers("get_cache_stats") =>
          /\ cache' = cache
          /\ IF cacheEnabled
             THEN /\ Get(answer').value.enabled = TRUE
                  /\ Get(answer').value.size = CacheLen(cache, now)
                  /\ Get(answer').value.max_size = CacheMaxSize
                  /\ Get(answer').value.ttl = CacheTtl
             ELSE Get(answer').value.enabled = FALSE]_vars

\* the step is an initialize() of the service, at startup or at a dispatch
Initializes == Answers("lifespan") \/ Answers("initialize_service")

\* the credential resolved for the provider called `name`: its own key,
\* else the generic key
Credential(name) ==
    CASE name = NameAmap -> StrOr(apiKeys.AMAP_API_KEY, apiKeys.GEOCODING_API_KEY)
      [] name = NameBaidu -> StrOr(apiKeys.BAIDU_API_KEY, apiKeys.GEOCODING_API_KEY)
      [] name = NameGoogle -> StrOr(apiKeys.GOOGLE_API_KEY, apiKeys.GEOCODING_API_KEY)
      [] OTHER -> ""

\* the adapter of the provider called `name`
AdapterOf(name) ==
    CASE name = NameAmap -> "amap"
      [] name = NameBaidu -> "baidu"
      [] name = NameGoogle -> "google"
      [] OTHER -> NoProvider

\* initialize() of a service configured for the provider called `name`:
\* it succeeds exactly when the name is supported and its credential is
\* there, binding that provider; otherwise it raises a configuration error,
\* binds nothing, and no request is touched
InitializeContract(name) ==
    LET out == Get(answer').value
        valid == name \in {NameAmap, NameBaidu, NameGoogle} /\ Credential(name) # ""
    IN  /\ out.ok <=> valid
        /\ out.ok => (provider' \in Providers /\ provider' = AdapterOf(name))
        /\ ~out.ok => /\ out.cls = "ValueError"
                      /\ provider' = NoProvider
                      /\ UNCHANGED requests

\* C14 as stated: initialize succeeds exactly when GEOCODING_PROVIDER is one
\* of amap, baidu, google and the credential resolved for it is non-empty;
\* otherwise it fails with a configuration error, binds no provider and
\* makes no outbound call.
C14_FailFast_Original == [][Initializes => InitializeContract(providerName)]_vars

\* C14: initialize succeeds exactly when GEOCODING_PROVIDER, in lower case,
\* is one of amap, baidu, google and the credential resolved for it is
\* non-empty; otherwise it fails with a configuration error, binds no
\* provider and makes no outbound call.
C14_FailFast == [][Initializes => InitializeContract(Lower(providerName))]_vars

C14_Witness ==
    /\ Answered("initialize_service")
    /\ ~Get(answer).value.ok
    /\ Get(answer).value.msg = "missing_api_key"
    /\ providerName = NameBaidu
    /\ provider = NoProvider

\* C15: once an initialize() of the service has failed, no geocode or
\* reverse_geocode request enters the cache and retry pipeline of that
\* service in any later state.
C15_NoTrafficAfterFailure ==
    initFailed => \A r \in Reqs : pc[r] \in {"NOT_STARTED", "REJECTED"}

\* another request for the same cache key is in flight
InFlightWith(r, o) ==
    /\ o # r
    /\ pc[o] \in {"CALLING", "RETRY_WAIT"}
    /\ KeyOf(Get(call[o])) = KeyOf(Get(call[r]))

\* C16: when a request returns the adapter's response while another request
\* for the same cache key is in flight, both having missed the cache, each
\* of the two has invoked the adapter itself, the response returned is the
\* one the request's own call produced, and it is stored under the key.
C16_NoCoalescing ==
    [][\A r, o \in Tasks :
          (cacheEnabled /\ pc[r] = "CALLING" /\ pc'[r] = "DONE" /\ InFlightWith(r, o))
              => /\ calls[r] >= 1 /\ calls[o] >= 1
                 /\ source'[r] = "adapter"
                 /\ CacheGet(cache', now', KeyOf(Get(call[r]))) = result'[r]]_vars

\* the transitions of a request between its awaits: the adapter call
\* succeeds (the store and the return follow in the same step), fails with
\* another attempt to come, fails for the last time, or the sleep ends
StageTransitions ==
    {<<"CALLING", "DONE">>, <<"CALLING", "RETRY_WAIT">>, <<"CALLING", "ERROR">>,
     <<"RETRY_WAIT", "CALLING">>}

\* C17: a request starts with the cache check, which either hits and ends
\* the request or misses and leads to the first adapter call; from there it
\* moves only along CALLING -> DONE, CALLING -> RETRY_WAIT -> CALLING and
\* CALLING -> ERROR; DONE and ERROR are left by no step of the request; with
\* caching enabled the check is made before the first call and the response
\* is stored when the call succeeds, and nothing is stored at any other step.
\* Stated for GEOCODING_RETRY_TIMES >= 1, where the retry loop is entered.
C17_StateMachine ==
    [][\A r \in Reqs :
          retryTimes >= 1 =>
          IF submits' # submits
          THEN /\ pc'[r] \in {"DONE", "CALLING"}
               /\ pc'[r] = "DONE" <=> source'[r] = "cache"
               /\ cacheEnabled => ~IsNone(cache_key'[r])
               /\ cache' = cache
          ELSE /\ pc'[r] # pc[r] => <<pc[r], pc'[r]>> \in StageTransitions
               /\ (cacheEnabled /\ pc[r] = "CALLING" /\ pc'[r] = "DONE") =>
                     CacheGet(cache', now', KeyOf(Get(call[r]))) = result'[r]
               /\ cache' # cache => (pc[r] = "CALLING" /\ pc'[r] = "DONE")]_vars

\* C18: once initialize has bound a provider, no step changes which
\* provider the service holds: no request, whether it succeeds, fails or
\* retries, and no health_check, get_cache_stats or get_uptime.
C18_ProviderImmutable ==
    [][(provider \in Providers) => (provider' = provider)]_vars

C18_Witness ==
    /\ provider \in Providers
    /\ Answered("get_uptime")
    /\ \E r \in Reqs : pc[r] = "ERROR" /\ calls[r] >= 2

\* the confidence computed for indicator x of provider prov is v
Scored(prov, x, v) ==
    /\ Answered("_calculate_confidence")
    /\ Get(answer).provider = prov
    /\ Get(answer).indicators[1] = x
    /\ Get(answer).value[1] = v

\* C19: Amap's confidence is the table value for every level of the table
\* (street number 0.95, poi 0.9, city 0.5) and 0.7 for every other level,
\* the empty string included; Google's is the table value for its four
\* location types and 0.7 for any other.
C19_ConfidenceLookup ==
    Answered("_calculate_confidence") =>
        LET a == Get(answer)
            x == a.indicators[1]
            v == a.value[1]
        IN  /\ a.provider = "amap" =>
                  /\ x \in DOMAIN AmapLevelConfidence => v = AmapLevelConfidence[x]
                  /\ x \notin DOMAIN AmapLevelConfidence => v = 70
                  /\ x = "street_number" => v = 95
                  /\ x = "poi" => v = 90
                  /\ x = "city" => v = 50
                  /\ x = "" => v = 70
            /\ a.provider = "google" =>
                  /\ x = "ROOFTOP" => v = 95
                  /\ x = "RANGE_INTERPOLATED" => v = 85
                  /\ x = "GEOMETRIC_CENTER" => v = 75
                  /\ x = "APPROXIMATE" => v = 60
                  /\ x \notin {"ROOFTOP", "RANGE_INTERPOLATED", "GEOMETRIC_CENTER",
                                "APPROXIMATE"} => v = 70

C19_Witness == Scored("amap", "", 70)

\* Amap's levels from the coarsest to the finest
AmapOrder ==
    <<"country", "province", "city", "district", "township", "village", "poi",
      "street_number", "unit_number">>

\* Google's location types from the coarsest to the finest
GoogleOrder == <<"APPROXIMATE", "GEOMETRIC_CENTER", "RANGE_INTERPOLATED", "ROOFTOP">>

\* x comes before y in the order, or is y
NotFiner(order, x, y) ==
    \E i, j \in 1..Len(order) : i <= j /\ order[i] = x /\ order[j] = y

\* C20: for each adapter, of two precision indicators the finer one never
\* yields the lower confidence: along Amap's levels from country to unit
\* number, along Google's location types from APPROXIMATE to ROOFTOP, and
\* along Baidu's confidence percentage.
C20_ConfidenceMonotone ==
    Answered("_calculate_confidence") =>
        LET a == Get(answer)
            x == a.indicators[1]
            y == a.indicators[2]
            coarser == CASE a.provider = "amap" -> NotFiner(AmapOrder, x, y)
                         [] a.provider = "google" -> NotFiner(GoogleOrder, x, y)
                         [] a.provider = "baidu" -> x <= y
        IN  coarser => a.value[1] <= a.value[2]

C20_Witness ==
    /\ Scored("amap", "city", 50)
    /\ Get(answer).indicators[2] = "street_number"
    /\ Get(answer).value[2] = 95

(* ------------------------------------------------------------------ *)
(* The adapters' translation of the provider's reply                     *)
(* ------------------------------------------------------------------ *)

\* the request got its response from an adapter call of provider prov
ReturnedBy(r, prov, op) ==
    /\ provider = prov
    /\ pc[r] = "DONE"
    /\ source[r] = "adapter"
    /\ Get(call[r]).op = op

\* an Amap reply that is successful and whose first entry has a location of
\* two numbers "X,Y"
AmapWellFormed(reply) ==
    /\ reply.transport = "ok"
    /\ reply.status = "1"
    /\ Len(reply.geocodes) > 0
    /\ Len(reply.geocodes[1].location) = 2
    /\ \A i \in 1..2 : reply.geocodes[1].location[i].numeric

\* C21: Amap coordinate order. Whenever AmapProvider.geocode returns a
\* response for a reply whose first entry has location "X,Y", the response
\* has longitude X and latitude Y, the entry's formatted_address (the
\* requested address when the entry has none) and the confidence of the
\* entry's level; a well-formed reply whose numbers are valid coordinates
\* always gives a response; and the stub reply 116.4074,39.9042 of level
\* poi gives latitude 39.9042, longitude 116.4074, confidence 0.9.
C21_AmapCoordinateOrder ==
    \A r \in Reqs :
        (provider = "amap" /\ ~IsNone(received[r]) /\ Get(call[r]).op = "geocode"
         /\ AmapWellFormed(Get(received[r])))
        => LET first == Get(received[r]).geocodes[1]
               X == first.location[1].v
               Y == first.location[2].v
           IN  /\ GeocodeResponseAccepts(Y, X) => ReturnedBy(r, "amap", "geocode")
               /\ ReturnedBy(r, "amap", "geocode") =>
                     /\ Get(result[r]).longitude = X
                     /\ Get(result[r]).latitude = Y
                     /\ Get(result[r]).formatted_address =
                           OrElse(first.formatted_address, Get(call[r]).address)
                     /\ Get(result[r]).confidence =
                           amap_calculate_confidence(first.level)
               /\ (X = LngSanlitun /\ Y = LatSanlitun /\ first.level = "poi") =>
                     /\ ReturnedBy(r, "amap", "geocode")
                     /\ Get(result[r]).latitude = LatSanlitun
                     /\ Get(result[r]).longitude = LngSanlitun
                     /\ Get(result[r]).confidence = 90

\* the stub reply has been translated, and so has a reply without a
\* formatted_address
C21_Witness ==
    \E r \in Reqs :
        /\ ReturnedBy(r, "amap", "geocode")
        /\ Get(received[r]).geocodes[1].location = <<Num(LngSanlitun), Num(LatSanlitun)>>
        /\ Get(received[r]).geocodes[1].level = "poi"
        /\ IsNone(Get(received[r]).geocodes[1].formatted_address)
        /\ Get(result[r]).latitude = LatSanlitun
        /\ Get(result[r]).formatted_address = Get(call[r]).address

\* the provider's status field signals failure
StatusFailure(prov, reply) ==
    CASE prov = "amap" -> reply.status # "1"
      [] prov = "baidu" -> reply.status # 0
      [] prov = "google" -> reply.status # "OK"

\* the result list (Amap, Google) or the result object (Baidu) is empty
NoResultEntries(prov, reply) ==
    CASE prov = "amap" -> Len(reply.geocodes) = 0
      [] prov = "baidu" -> IsNone(reply.location)
      [] prov = "google" -> Len(reply.results) = 0

\* the first result carries no coordinates
NoCoordinateData(prov, reply) ==
    CASE prov = "amap" -> Len(reply.geocodes[1].location) = 0
      [] prov = "baidu" ->
           IsNone(Get(reply.location).lat) \/ IsNone(Get(reply.location).lng)
      [] prov = "google" ->
           \/ IsNone(reply.results[1].location)
           \/ IsNone(Get(reply.results[1].location).lat)
           \/ IsNone(Get(reply.results[1].location).lng)

\* conditions (a) to (d), each read only where the ones before do not hold
FailureCondition(prov, reply) ==
    \/ reply.transport # "ok"
    \/ StatusFailure(prov, reply)
    \/ NoResultEntries(prov, reply)
    \/ NoCoordinateData(prov, reply)

\* C22: adapter failure conditions. For each adapter, a geocode call whose
\* reply is a transport failure, has a failing status, has no result
\* entries or has a first result without coordinates raises and returns no
\* response; a response is returned only for a reply with none of these;
\* and every invocation has issued exactly one outbound call.
C22_AdapterFailures ==
    \A r \in Reqs :
        /\ Len(sent[r]) = calls[r]
        /\ (~IsNone(received[r]) /\ Get(call[r]).op = "geocode") =>
              LET reply == Get(received[r])
              IN  /\ FailureCondition(provider, reply) =>
                        /\ pc[r] # "DONE"
                        /\ IsNone(result[r])
                        /\ ~IsNone(observed[r])
                        /\ Get(observed[r]).cls \in {"HTTPError", "Exception"}
                  /\ ReturnedBy(r, provider, "geocode") => ~FailureCondition(provider, reply)

\* a Google call has failed on the status alone, after one outbound call
C22_Witness ==
    \E r \in Reqs :
        /\ provider = "google"
        /\ ~IsNone(received[r])
        /\ Get(call[r]).op = "geocode"
        /\ Get(received[r]).transport = "ok"
        /\ Get(received[r]).status = "OVER_QUERY_LIMIT"
        /\ Len(Get(received[r]).results) = 1
        /\ pc[r] = "ERROR"
        /\ Get(raised[r]).msg = "api_error"
        /\ Len(sent[r]) = 1

(* ------------------------------------------------------------------ *)
(* What the adapters send                                                *)
(* ------------------------------------------------------------------ *)

\* C23: radius clamping. For every requested radius in [1, 50000], each
\* outbound reverse_geocode query of each adapter carries a radius, which is
\* the requested one capped at the provider's ceiling (3000 for Amap): never
\* more than requested, and min(requested, 3000) for Amap.
C23_RadiusClamping ==
    \A r \in Reqs :
        (~IsNone(call[r]) /\ Get(call[r]).op = "reverse_geocode"
         /\ RadiusAccepts(Some(Get(call[r]).radius)))
        => \A i \in 1..Len(sent[r]) :
              LET asked == Get(call[r]).radius
                  query == sent[r][i]
              IN  /\ ~IsNone(query.radius)
                  /\ Get(query.radius) <= asked
                  /\ provider = "amap" =>
                        Get(query.radius) = IF asked <= AMAP_MAX_RADIUS THEN asked
                                            ELSE AMAP_MAX_RADIUS

(* ------------------------------------------------------------------ *)
(* The cache key                                                         *)
(* ------------------------------------------------------------------ *)

\* the two calls of a key computation, and their keys
KeyedCalls == Get(answer).value.calls

Keys == Get(answer).value.keys

\* C24: cache key determinism and distinctness. _get_cache_key gives the
\* same string for the same operation and parameter values in whatever
\* order the parameters are passed, and different strings for two requests
\* that differ in operation, address or city, for all strings (also those
\* that contain the separator ":").
C24_KeyDistinct ==
    Answered("_get_cache_key") =>
        /\ Get(answer).value.reordered = Keys[1]
        /\ (KeyedCalls[1].op = "geocode" \/ KeyedCalls[2].op = "geocode") =>
              (Normalized(KeyedCalls[1]) = Normalized(KeyedCalls[2]) <=> Keys[1] = Keys[2])

\* C25: coordinate rounding in the reverse key. Two reverse_geocode
\* requests with the same radius whose latitudes and longitudes are equal
\* after rounding to 6 decimals have the same key; two whose rounded
\* latitude, rounded longitude or radius differ have different keys.
C25_RoundedKey ==
    (Answered("_get_cache_key") /\ KeyedCalls[1].op = "reverse_geocode"
     /\ KeyedCalls[2].op = "reverse_geocode")
    => (Normalized(KeyedCalls[1]) = Normalized(KeyedCalls[2]) <=> Keys[1] = Keys[2])

(* ------------------------------------------------------------------ *)
(* The confidence of the responses                                       *)
(* ------------------------------------------------------------------ *)

\* the fixed confidence of a provider's reverse lookups
ReverseConfidence(prov) ==
    CASE prov = "amap" -> AMAP_REVERSE_CONFIDENCE
      [] prov = "baidu" -> BAIDU_REVERSE_CONFIDENCE
      [] prov = "google" -> GOOGLE_REVERSE_CONFIDENCE

\* C26: confidence range. Every response an adapter produces, for every
\* provider reply, has a confidence within [0, 1] (in hundredths, 0..100),
\* the rescaled Baidu percentage included, and a reverse lookup's
\* confidence is the provider's constant (Amap 0.9, Baidu 0.85, Google 0.9).
C26_ConfidenceRange ==
    \A r \in Reqs :
        (pc[r] = "DONE" /\ source[r] = "adapter") =>
            /\ Get(result[r]).confidence \in 0..100
            /\ Get(call[r]).op = "reverse_geocode" =>
                  Get(result[r]).confidence = ReverseConfidence(provider)

(* ------------------------------------------------------------------ *)
(* What the cache holds                                                  *)
(* ------------------------------------------------------------------ *)

\* the entries of a cache
Entries(c) == {c[i] : i \in 1..Len(c)}

\* the step is a failed attempt of request r, or the end of r in ERROR
FailedStep(r) ==
    \/ pc[r] = "CALLING" /\ pc'[r] \in {"RETRY_WAIT", "ERROR"}
    \/ pc[r] # "ERROR" /\ pc'[r] = "ERROR"

\* C27: cache integrity. Every entry that enters the cache is the response
\* the adapter has just returned from a successful call, under the key of
\* that call's parameters; a failed attempt and a request that ends in
\* ERROR leave the cache as it was; and the cache never holds more than
\* CACHE_MAX_SIZE entries.
C27_CacheIntegrity ==
    [][/\ \A e \in Entries(cache') \ Entries(cache) :
              \E r \in Reqs :
                  /\ pc[r] = "CALLING" /\ pc'[r] = "DONE" /\ source'[r] = "adapter"
                  /\ e.key = KeyOf(Get(call[r]))
                  /\ e.value = Get(result'[r])
       /\ \A r \in Reqs : FailedStep(r) => cache' = cache
       /\ Len(cache') <= CacheMaxSize]_vars

\* with the cache enabled, a request has ended in ERROR after a failed
\* attempt that followed a sleep, and the cache is as it was
C27_Witness ==
    \E r \in Reqs :
        /\ cacheEnabled
        /\ pc[r] = "ERROR"
        /\ calls[r] >= 2
        /\ ~IsNone(observed[r])
        /\ cache = <<>>

(* ------------------------------------------------------------------ *)
(* Concurrent requests                                                   *)
(* ------------------------------------------------------------------ *)

\* C28: independent retry budgets. Under every interleaving of two
\* concurrent requests at their awaits, a request's counter counts its own
\* failed attempts only, a request that fails has made exactly
\* GEOCODING_RETRY_TIMES attempts, and the error it raises is the one its
\* own last attempt raised (the synthetic one when it made no attempt).
C28_IndependentBudgets ==
    \A r \in Tasks :
        /\ pc[r] = "CALLING" => calls[r] = retry_count[r] + 1
        /\ pc[r] = "RETRY_WAIT" => calls[r] = retry_count[r]
        /\ pc[r] \in {"CALLING", "RETRY_WAIT"} => last_exception[r] = observed[r]
        /\ pc[r] = "ERROR" =>
              /\ calls[r] = retryTimes
              /\ retry_count[r] = retryTimes
              /\ last_exception[r] = observed[r]
              /\ raised[r] = Some(RaiseAfterLoop(observed[r]))
              /\ retryTimes >= 1 => Get(raised[r]).attempt = retryTimes

\* both requests have failed after three attempts each, with errors of
\* their own
C28_Witness ==
    /\ retryTimes = 3
    /\ pc[1] = "ERROR" /\ pc[2] = "ERROR"
    /\ calls[1] = 3 /\ calls[2] = 3
    /\ Get(raised[1]).msg = "transport"
    /\ Get(raised[2]).msg = "api_error"

(* ------------------------------------------------------------------ *)
(* What the entry points pass on                                         *)
(* ------------------------------------------------------------------ *)

\* the service call that carries all validated fields of the request inp
FullCall(inp) ==
    IF inp.op = "geocode"
    THEN GeocodeCall(GeocodeRequest(inp.address, inp.city).address,
                     GeocodeRequest(inp.address, inp.city).city)
    ELSE ReverseCall(inp.latitude, inp.longitude,
                     IF IsNone(inp.radius) THEN DEFAULT_RADIUS ELSE Get(inp.radius))

\* two service calls with the same arguments (no city and an empty city are
\* the same hint)
SameCall(c, d) ==
    /\ c.op = d.op
    /\ IF c.op = "geocode"
       THEN c.address = d.address /\ OrElse(c.city, <<>>) = OrElse(d.city, <<>>)
       ELSE c = d

\* C29: entry points forward the full request. For every request an HTTP
\* route or an MCP tool accepts, the service is called with all validated
\* fields: geocode with the address and the city hint, reverse_geocode with
\* latitude, longitude and the radius; so the call is the same through
\* either entry point.
C29_FullForwarding ==
    \A r \in Reqs :
        (entry[r] \in {"http", "mcp"} /\ ~IsNone(call[r]))
        => SameCall(Get(call[r]), FullCall(Get(input[r])))

(* ------------------------------------------------------------------ *)
(* Termination                                                           *)
(* ------------------------------------------------------------------ *)

\* the request is under way
InFlight(r) == pc[r] \in {"CALLING", "RETRY_WAIT"}

\* at most GEOCODING_RETRY_TIMES adapter calls and, once there was a call,
\* at most GEOCODING_RETRY_TIMES - 1 sleeps
WithinBudget(r) ==
    /\ calls[r] <= retryTimes
    /\ calls[r] > 0 => Len(sleeps[r]) <= retryTimes - 1
    /\ calls[r] = 0 => Len(sleeps[r]) = 0

\* C30: termination. Provided every adapter call and every backoff sleep
\* eventually returns, every request eventually reaches DONE or ERROR, with
\* at most GEOCODING_RETRY_TIMES adapter calls and at most
\* GEOCODING_RETRY_TIMES - 1 sleeps; an attempt that timed out is one
\* failed attempt like any other.
C30_Termination ==
    /\ [](\A r \in Reqs : WithinBudget(r))
    /\ [](\A r \in Reqs :
             (~IsNone(received[r]) /\ Get(received[r]) = TimeoutReply)
             => (/\ ~IsNone(observed[r])
                 /\ Get(observed[r]).attempt = retry_count[r]
                 /\ last_exception[r] = observed[r]
                 /\ pc[r] # "DONE"))
    /\ \A r \in Reqs : InFlight(r) ~> (pc[r] \in {"DONE", "ERROR"})

\* a request has ended in ERROR after three attempts and two sleeps, the
\* last attempt a timeout
C30_Witness ==
    \E r \in Reqs :
        /\ retryTimes = 3
        /\ pc[r] = "ERROR"
        /\ calls[r] = 3
        /\ Len(sleeps[r]) = 2
        /\ received[r] = Some(TimeoutReply)
====
